---------------------------- MODULE Spec2Model ----------------------------
(***************************************************************************)
(* A model of the typed HTTP header library (hyperium/headers).            *)
(*                                                                         *)
(* Text.  A string (a &str, or the bytes of a HeaderValue) is a sequence   *)
(* of symbols.  Digits, punctuation and white space are one symbol per     *)
(* character; a run of letters and hyphens that the code only ever         *)
(* compares as a whole (a directive name, a coding name) is one symbol.    *)
(* The symbol OBS stands for a byte >= 0x80, which a HeaderValue may hold  *)
(* and which makes HeaderValue::to_str fail.                               *)
(*                                                                         *)
(* Option<T> is a sequence of length <= 1: None is <<>>, Some(x) is <<x>>. *)
(* Result<T, Error> is a record [ok |-> TRUE, val |-> x] or                *)
(* [ok |-> FALSE, val |-> <<>>].                                           *)
(***************************************************************************)
EXTENDS Integers, Sequences, FiniteSets, TLC

VARIABLES
    pc,        \* position of the scenario being run
    cc,        \* Cache-Control: the CacheControl value in hand
    calls,     \* Cache-Control: number of with_* calls made on cc
    wire,      \* Cache-Control: the header values of the message
    decoded,   \* Cache-Control: Result of the last decode, or NoResult
    aeWire,    \* Accept-Encoding: the header values of the message
    accept,    \* Accept-Encoding: the decoded AcceptEncoding (its FlatCsv value)
    aeOut,     \* Accept-Encoding: outcome of the last accessor call
    rspec,     \* Range: the ByteRangeSpec in hand
    rlen,      \* Range: the length of the resource
    rout,      \* Range: Result of to_satisfiable_range_bounds, or NoResult
    hname,     \* header map: the header that is asked for
    held,      \* header map: the values the map holds under that name
    got,       \* header map: what the last decode or typed get returned
    fcSep,     \* FlatCsv: the separator of the list
    fcValues,  \* FlatCsv: the header values collected
    flat,      \* FlatCsv: the FlatCsv built from them, if any
    fcTokens,  \* FlatCsv: the items the last iteration gave
    csvOut,    \* csv: Result of from_delimited or from_comma_delimited on the values
    dateStr,   \* HTTP date: the text to parse
    written,   \* HTTP date: the instant the text was written for, if any
    date,      \* HTTP date: Result of parsing the text, or NoResult
    shown,     \* HTTP date: the text Display gave for the parsed date
    insName,   \* typed_insert: the name of the header inserted
    before,    \* typed_insert: the map before the call, name by name
    hmap,      \* typed_insert: the map, name by name
    pushed,    \* typed_insert: the values encode hands to extend, call by call
    tvState,   \* typed_insert: the state of ToValues when encode returned
    fwdShape,  \* Forwarded: the elements of the message, each the pairs written in it
    fwdWire,   \* Forwarded: the header values of the message
    fwd,       \* Forwarded: Result of decoding the message, or NoResult
    fwdValues, \* Forwarded: the values encode pushed for the decoded header
    fwdAgain,  \* Forwarded: Result of decoding the pushed values, or NoResult
    brInner,   \* ByteRangeBuilder: the specs the builder holds
    brBounds,  \* ByteRangeBuilder: the start and end bound given to range
    brOut,     \* ByteRangeBuilder: outcome of the range call
    qvItem,    \* QualityValue: the list item
    qvDelm,    \* QualityValue: the quality delimiter of the list
    qvMeta,    \* QualityValue: Result of QualityMeta::try_from on the item, or NoResult
    qvYield,   \* QualityValue: outcome of iter on the list of that one item
    kdName,    \* numeric directive: the name of the directive in the message
    kdText,    \* numeric directive: the text after its = sign
    kdWire,    \* numeric directive: the header values of the message
    kdOut,     \* numeric directive: Result of decoding the message, or NoResult
    built,     \* builders: the CacheControl the with_* calls returned
    called,    \* builders: the with_* calls made, in order
    ndStr,     \* Forwarded node: the text of the node
    ndOut,     \* Forwarded node: Result of Node::from_str on the text, or NoResult
    stsShape,  \* Strict-Transport-Security: the directives written in the value
    stsWire,   \* Strict-Transport-Security: the header values of the message
    stsOut,    \* Strict-Transport-Security: what decode returned, an Option in a Returned
    rpStr,     \* Range text: the text to parse
    rpOut,     \* Range text: Result of Range::from_str on the text, or NoResult
    rpShown,   \* Range text: what Display gave for the parsed Range
    rpAgain,   \* Range text: Result of parsing what Display gave, or NoResult
    linkLines, \* Link decode: the value lines of the message, in receipt order
    linkOut,   \* Link decode: Result of Link::decode, or NoResult
    stVia,     \* Time round trip: the type the time goes through (HttpDate, Expires, IfModifiedSince)
    stTime,    \* Time round trip: a SystemTime, as the milliseconds from UNIX_EPOCH (negative before it)
    stDate,    \* Time round trip: the HttpDate made from the time, as Some(OffsetDateTime), or None
    stBack     \* Time round trip: the SystemTime made from the HttpDate, as Some(milliseconds), or None

ccVars == <<cc, calls, wire, decoded>>
aeVars == <<aeWire, accept, aeOut>>
rangeVars == <<rspec, rlen, rout>>
mapVars == <<hname, held, got>>
csvVars == <<fcSep, fcValues, flat, fcTokens, csvOut>>
dateVars == <<dateStr, written, date, shown>>
insVars == <<insName, before, hmap, pushed, tvState>>
fwdVars == <<fwdShape, fwdWire, fwd, fwdValues, fwdAgain>>
bldVars == <<brInner, brBounds, brOut>>
qvVars == <<qvItem, qvDelm, qvMeta, qvYield>>
kdVars == <<kdName, kdText, kdWire, kdOut>>
bdVars == <<built, called>>
ndVars == <<ndStr, ndOut>>
stsVars == <<stsShape, stsWire, stsOut>>
rpVars == <<rpStr, rpOut, rpShown, rpAgain>>
linkVars == <<linkLines, linkOut>>
stVars == <<stVia, stTime, stDate, stBack>>
vars == <<pc, ccVars, aeVars, rangeVars, mapVars, csvVars, dateVars, insVars, fwdVars, bldVars, qvVars, kdVars, bdVars, ndVars, stsVars, rpVars, linkVars, stVars>>

\* What the scenarios of one header leave alone: the variables of the others.
notCC == <<aeVars, rangeVars, mapVars, csvVars, dateVars, insVars, fwdVars, bldVars, qvVars, kdVars, bdVars, ndVars, stsVars, rpVars, linkVars, stVars>>
notAE == <<ccVars, rangeVars, mapVars, csvVars, dateVars, insVars, fwdVars, bldVars, qvVars, kdVars, bdVars, ndVars, stsVars, rpVars, linkVars, stVars>>
notRange == <<ccVars, aeVars, mapVars, csvVars, dateVars, insVars, fwdVars, bldVars, qvVars, kdVars, bdVars, ndVars, stsVars, rpVars, linkVars, stVars>>
notMap == <<ccVars, aeVars, rangeVars, csvVars, dateVars, insVars, fwdVars, bldVars, qvVars, kdVars, bdVars, ndVars, stsVars, rpVars, linkVars, stVars>>
notCsv == <<ccVars, aeVars, rangeVars, mapVars, dateVars, insVars, fwdVars, bldVars, qvVars, kdVars, bdVars, ndVars, stsVars, rpVars, linkVars, stVars>>
notDate == <<ccVars, aeVars, rangeVars, mapVars, csvVars, insVars, fwdVars, bldVars, qvVars, kdVars, bdVars, ndVars, stsVars, rpVars, linkVars, stVars>>
notIns == <<ccVars, aeVars, rangeVars, mapVars, csvVars, dateVars, fwdVars, bldVars, qvVars, kdVars, bdVars, ndVars, stsVars, rpVars, linkVars, stVars>>
notFwd == <<ccVars, aeVars, rangeVars, mapVars, csvVars, dateVars, insVars, bldVars, qvVars, kdVars, bdVars, ndVars, stsVars, rpVars, linkVars, stVars>>
notBld == <<ccVars, aeVars, rangeVars, mapVars, csvVars, dateVars, insVars, fwdVars, qvVars, kdVars, bdVars, ndVars, stsVars, rpVars, linkVars, stVars>>
notQv == <<ccVars, aeVars, rangeVars, mapVars, csvVars, dateVars, insVars, fwdVars, bldVars, kdVars, bdVars, ndVars, stsVars, rpVars, linkVars, stVars>>
notKd == <<ccVars, aeVars, rangeVars, mapVars, csvVars, dateVars, insVars, fwdVars, bldVars, qvVars, bdVars, ndVars, stsVars, rpVars, linkVars, stVars>>
notBd == <<ccVars, aeVars, rangeVars, mapVars, csvVars, dateVars, insVars, fwdVars, bldVars, qvVars, kdVars, ndVars, stsVars, rpVars, linkVars, stVars>>
notNd == <<ccVars, aeVars, rangeVars, mapVars, csvVars, dateVars, insVars, fwdVars, bldVars, qvVars, kdVars, bdVars, stsVars, rpVars, linkVars, stVars>>
notSts == <<ccVars, aeVars, rangeVars, mapVars, csvVars, dateVars, insVars, fwdVars, bldVars, qvVars, kdVars, bdVars, ndVars, rpVars, linkVars, stVars>>
notRp == <<ccVars, aeVars, rangeVars, mapVars, csvVars, dateVars, insVars, fwdVars, bldVars, qvVars, kdVars, bdVars, ndVars, stsVars, linkVars, stVars>>
notLink == <<ccVars, aeVars, rangeVars, mapVars, csvVars, dateVars, insVars, fwdVars, bldVars, qvVars, kdVars, bdVars, ndVars, stsVars, rpVars, stVars>>
notSt == <<ccVars, aeVars, rangeVars, mapVars, csvVars, dateVars, insVars, fwdVars, bldVars, qvVars, kdVars, bdVars, ndVars, stsVars, rpVars, linkVars>>

-----------------------------------------------------------------------------
(* Bounds of the model                                                     *)

MaxCalls == 2      \* with_* calls made on one CacheControl
MaxTokens == 3     \* list tokens in all the Cache-Control values of a message
MaxItems == 3      \* list items in all the Accept-Encoding values of a message
MaxPos == 5        \* byte positions and suffix lengths of a ByteRangeSpec
MaxLen == 5        \* length of the resource a range is applied to
MaxPolicyTokens == 3  \* list tokens in all the values under Referrer-Policy or Expect
MaxValues == 3     \* values a map holds under the name of a single-value header
MaxCsvTokens == 3  \* list items in all the values collected into a FlatCsv
MaxStored == 2     \* values a map holds under one name before typed_insert
MaxPushed == 3     \* values the encode of an inserted header hands over
MaxFwdPairs == 3   \* parameter pairs in all the Forwarded values of a message
WordBits == 3      \* bits of the integers that stand for u64 in ByteRangeBuilder
MaxBuilderCalls == 3  \* with_* calls made on CacheControl::new()
MaxStsDirectives == 3  \* directives in a Strict-Transport-Security value
MaxRangeItems == 2     \* items in the list of a Range text
MaxLinkLines == 3      \* value lines of a Link message

-----------------------------------------------------------------------------
(* Option and Result                                                       *)

None == <<>>
Some(x) == <<x>>
Ok(x) == [ok |-> TRUE, val |-> x]
Err == [ok |-> FALSE, val |-> <<>>]
NoResult == [ok |-> FALSE, val |-> <<"not run">>]

\* The outcome of a call that may panic.
Panic == [panic |-> TRUE, val |-> <<>>]
Returned(x) == [panic |-> FALSE, val |-> x]
NoOut == [panic |-> FALSE, val |-> <<"not run">>]

-----------------------------------------------------------------------------
(* Text primitives (std::str)                                              *)

OBS == "<0xFF>"
WhiteSpace == {" ", "\t"}
Digits == <<"0", "1", "2", "3", "4", "5", "6", "7", "8", "9">>

\* HeaderValue::to_str: fails on a byte outside visible ASCII / tab.
to_str(v) == IF \E i \in 1..Len(v) : v[i] = OBS THEN Err ELSE Ok(v)

RECURSIVE TrimStart(_)
TrimStart(s) ==
    IF s # <<>> /\ Head(s) \in WhiteSpace THEN TrimStart(Tail(s)) ELSE s

RECURSIVE TrimEnd(_)
TrimEnd(s) ==
    IF s # <<>> /\ s[Len(s)] \in WhiteSpace
    THEN TrimEnd(SubSeq(s, 1, Len(s) - 1)) ELSE s

\* str::trim
Trim(s) == TrimEnd(TrimStart(s))

RECURSIVE TrimMatchesStart(_, _)
TrimMatchesStart(s, c) ==
    IF s # <<>> /\ Head(s) = c THEN TrimMatchesStart(Tail(s), c) ELSE s

RECURSIVE TrimMatchesEnd(_, _)
TrimMatchesEnd(s, c) ==
    IF s # <<>> /\ s[Len(s)] = c
    THEN TrimMatchesEnd(SubSeq(s, 1, Len(s) - 1), c) ELSE s

\* str::trim_matches(c)
TrimMatches(s, c) == TrimMatchesEnd(TrimMatchesStart(s, c), c)

\* str::find(c): the index (from 1) of the first c, 0 when there is none.
Find(s, c) ==
    IF \E i \in 1..Len(s) : s[i] = c
    THEN CHOOSE i \in 1..Len(s) : s[i] = c /\ \A j \in 1..(i - 1) : s[j] # c
    ELSE 0

DigitValue(c) == (CHOOSE i \in 1..10 : Digits[i] = c) - 1
IsDigit(c) == \E i \in 1..10 : Digits[i] = c

RECURSIVE DigitsValue(_, _)
DigitsValue(s, acc) ==
    IF s = <<>> THEN acc ELSE DigitsValue(Tail(s), acc * 10 + DigitValue(Head(s)))

\* <u64 as FromStr>::from_str: an optional "+", then one or more digits.
\* (Overflow of u64 needs 20 digits, more than any string of the model.)
ParseU64(s) ==
    LET body == IF s # <<>> /\ Head(s) = "+" THEN Tail(s) ELSE s
    IN  IF body # <<>> /\ \A i \in 1..Len(body) : IsDigit(body[i])
        THEN Ok(DigitsValue(body, 0))
        ELSE Err

RECURSIVE FormatU64(_)
\* <u64 as Display>::fmt
FormatU64(n) ==
    IF n < 10 THEN <<Digits[n + 1]>>
    ELSE FormatU64(n \div 10) \o <<Digits[(n % 10) + 1]>>

RECURSIVE Concat(_)
\* The concatenation of a sequence of sequences.
Concat(ss) == IF ss = <<>> THEN <<>> ELSE Head(ss) \o Concat(Tail(ss))

RECURSIVE SelectSome_backwards(_)
\* SelectSome over the slice read from its end (slice.iter().rev()).
SelectSome_backwards(os) ==
    IF os = <<>> THEN <<>>
    ELSE SelectSome_backwards(Tail(os)) \o Head(os)

RECURSIVE SelectSome(_)
\* Iterator::filter_map(|o| o) over a sequence of Options.
SelectSome(os) ==
    IF os = <<>> THEN <<>>
    ELSE Head(os) \o SelectSome(Tail(os))

RECURSIVE SplitStrFrom(_, _, _, _)
SplitStrFrom(s, pat, cur, acc) ==
    IF s = <<>> THEN Append(acc, cur)
    ELSE IF Len(s) >= Len(pat) /\ SubSeq(s, 1, Len(pat)) = pat
         THEN SplitStrFrom(SubSeq(s, Len(pat) + 1, Len(s)), pat, <<>>, Append(acc, cur))
         ELSE SplitStrFrom(Tail(s), pat, Append(cur, Head(s)), acc)

\* str::split(pat) for a non-empty string pattern: the pieces between the
\* matches of pat, found left to right; n matches give n + 1 pieces.
SplitStr(s, pat) == SplitStrFrom(s, pat, <<>>, <<>>)

\* str::split(c) for a character.
Split(s, c) == SplitStr(s, <<c>>)

RECURSIVE Pow2(_)
Pow2(k) == IF k = 0 THEN 1 ELSE 2 * Pow2(k - 1)

RECURSIVE Pow10(_)
Pow10(k) == IF k = 0 THEN 1 ELSE 10 * Pow10(k - 1)

\* A decimal numeral [sign] digits [. digits] with at least one digit, as the
\* exact fraction num / den (den a power of ten), or Err.
ParseDecimal(s) ==
    LET neg == s # <<>> /\ Head(s) = "-"
        body == IF s # <<>> /\ Head(s) \in {"+", "-"} THEN Tail(s) ELSE s
        dot == Find(body, ".")
        int == IF dot = 0 THEN body ELSE SubSeq(body, 1, dot - 1)
        frac == IF dot = 0 THEN <<>> ELSE SubSeq(body, dot + 1, Len(body))
    IN  IF /\ Len(int) + Len(frac) > 0
           /\ \A i \in 1..Len(int) : IsDigit(int[i])
           /\ \A i \in 1..Len(frac) : IsDigit(frac[i])
        THEN Ok([neg |-> neg, num |-> DigitsValue(int \o frac, 0), den |-> Pow10(Len(frac))])
        ELSE Err

RECURSIVE F32Normalize(_, _, _, _)
\* Binary long division of r / den below the bits q already found, until q
\* has 24 bits; t counts the binary places produced.
F32Normalize(q, r, den, t) ==
    IF q >= Pow2(23) THEN [q |-> q, r |-> r, t |-> t]
    ELSE F32Normalize(2 * q + (IF 2 * r >= den THEN 1 ELSE 0), (2 * r) % den, den, t + 1)

\* The f32 nearest to num / den (round to nearest, ties to even), for
\* 0 < num / den < 2^23, as mant * 2^(-t) with 2^23 <= mant < 2^24; zero has
\* mant = 0.
F32OfFraction(num, den) ==
    IF num = 0 THEN [mant |-> 0, t |-> 0]
    ELSE LET n == F32Normalize(num \div den, num % den, den, 0)
             up == 2 * n.r > den \/ (2 * n.r = den /\ n.q % 2 = 1)
             q == IF up THEN n.q + 1 ELSE n.q
         IN  IF q = Pow2(24) THEN [mant |-> Pow2(23), t |-> n.t - 1]
             ELSE [mant |-> q, t |-> n.t]

\* <f32 as FromStr>::from_str on a decimal numeral (the strings of the model
\* hold no exponent and no inf / nan spelling): the nearest f32.
ParseF32(s) ==
    LET d == ParseDecimal(s)
    IN  IF d.ok
        THEN LET f == F32OfFraction(d.val.num, d.val.den)
             IN  Ok([neg |-> d.val.neg, mant |-> f.mant, t |-> f.t])
        ELSE Err

U16_MAX == 65535

\* (parsed * 1000_f32) as u16: the f32 product, rounded to nearest even,
\* then truncated toward zero and saturated to 0..=u16::MAX.
\* mant * 1000 = (mant * 125) * 2^3 and mant * 125 < 2^31 has 30 or 31 bits.
F32Times1000AsU16(x) ==
    IF x.mant = 0 \/ x.neg THEN 0
    ELSE LET p == x.mant * 125
             sh == IF p >= Pow2(30) THEN 7 ELSE 6
             hi == p \div Pow2(sh)
             lo == p % Pow2(sh)
             half == Pow2(sh - 1)
             m == IF lo > half \/ (lo = half /\ hi % 2 = 1) THEN hi + 1 ELSE hi
             e == sh + 3 - x.t
         IN  IF e >= 0 THEN U16_MAX
             ELSE IF -e > 24 THEN 0
             ELSE LET v == m \div Pow2(-e)
                  IN  IF v > U16_MAX THEN U16_MAX ELSE v

-----------------------------------------------------------------------------
(* util/csv.rs                                                             *)

\* The mutation of SplitQuoted that splits at every delimiter.
SplitQuoted_at_every_delimiter(s, delimiter, in_quotes, cur, acc) == Split(s, delimiter)

RECURSIVE SplitQuoted(_, _, _, _, _)
\* The closure given to str::split in from_delimited: in_quotes starts false
\* for the string; inside quotes only a double quote changes the state, and
\* outside quotes the delimiter splits and a double quote opens quotes.
\* s is the text still to read, cur the piece being read, acc the pieces read.
SplitQuoted(s, delimiter, in_quotes, cur, acc) ==
    IF s = <<>> THEN Append(acc, cur)
    ELSE LET c == Head(s) IN
         IF in_quotes
         THEN SplitQuoted(Tail(s), delimiter, c # "\"", Append(cur, c), acc)
         ELSE IF c = delimiter
              THEN SplitQuoted(Tail(s), delimiter, FALSE, <<>>, Append(acc, cur))
              ELSE SplitQuoted(Tail(s), delimiter, c = "\"", Append(cur, c), acc)

RECURSIVE TrimmedNonEmpty(_)
\* .filter_map(|x| match x.trim() { "" => None, y => Some(y) })
TrimmedNonEmpty(pieces) ==
    IF pieces = <<>> THEN <<>>
    ELSE LET y == Trim(Head(pieces)) IN
         (IF y = <<>> THEN <<>> ELSE <<y>>) \o TrimmedNonEmpty(Tail(pieces))

\* The pieces of one string that from_delimited hands to FromStr.
DelimitedPieces(string, delimiter) ==
    TrimmedNonEmpty(SplitQuoted(string, delimiter, FALSE, <<>>, <<>>))

RECURSIVE CollectResults(_)
\* collect::<Result<_, Error>>(): the first Err wins, else all the values.
CollectResults(rs) ==
    IF rs = <<>> THEN Ok(<<>>)
    ELSE IF ~Head(rs).ok THEN Err
    ELSE LET rest == CollectResults(Tail(rs)) IN
         IF rest.ok THEN Ok(<<Head(rs).val>> \o rest.val) ELSE Err

RECURSIVE StrValues(_)
\* values.flat_map(|header_value| header_value.to_str()): a value that is not
\* text yields nothing.
StrValues(values) ==
    IF values = <<>> THEN <<>>
    ELSE LET r == to_str(Head(values)) IN
         (IF r.ok THEN <<r.val>> ELSE <<>>) \o StrValues(Tail(values))

RECURSIVE AllPieces(_, _)
AllPieces(strings, delimiter) ==
    IF strings = <<>> THEN <<>>
    ELSE DelimitedPieces(Head(strings), delimiter) \o AllPieces(Tail(strings), delimiter)

RECURSIVE fmt_comma_delimited(_)
\* fmt_comma_delimited: the parts joined by ", ".
fmt_comma_delimited(parts) ==
    IF parts = <<>> THEN <<>>
    ELSE IF Len(parts) = 1 THEN Head(parts)
    ELSE Head(parts) \o <<",", " ">> \o fmt_comma_delimited(Tail(parts))

-----------------------------------------------------------------------------
(* util/seconds.rs                                                         *)

\* std::time::Duration: whole seconds and the sub-second nanoseconds.
Duration(secs, nanos) == [secs |-> secs, nanos |-> nanos]
Duration_from_secs(secs) == Duration(secs, 0)

\* impl From<Duration> for Seconds: Seconds(dur), the Duration as given.
Seconds_from(dur) == dur

\* Seconds as a number of seconds (Duration::as_secs), as Display writes it.
Seconds_as_u64(s) == s.secs

-----------------------------------------------------------------------------
(* common/cache_control.rs                                                 *)

RECURSIVE BitAnd(_, _)
\* u64 &
BitAnd(a, b) ==
    IF a = 0 \/ b = 0 THEN 0
    ELSE (a % 2) * (b % 2) + 2 * BitAnd(a \div 2, b \div 2)

RECURSIVE BitOr(_, _)
\* u64 |
BitOr(a, b) ==
    IF a = 0 THEN b
    ELSE IF b = 0 THEN a
    ELSE (IF a % 2 = 1 \/ b % 2 = 1 THEN 1 ELSE 0) + 2 * BitOr(a \div 2, b \div 2)

NO_CACHE == 1
NO_STORE == 2
NO_TRANSFORM == 4
ONLY_IF_CACHED == 8
MUST_REVALIDATE == 16
PUBLIC == 32
PRIVATE == 64
PROXY_REVALIDATE == 128
IMMUTABLE == 256
MUST_UNDERSTAND == 512

Flags_empty == 0
Flags_contains(bits, flag) == BitAnd(bits, flag) # 0
Flags_insert(bits, flag) == BitOr(bits, flag)

CacheControl_new ==
    [flags |-> Flags_empty, max_age |-> None, max_stale |-> None,
     min_fresh |-> None, s_max_age |-> None,
     stale_while_revalidate |-> None, stale_if_error |-> None]

\* A Directive is a record: kind, and secs for the numeric kinds.
Flag(kind) == [kind |-> kind, secs |-> 0]
Numeric(kind, secs) == [kind |-> kind, secs |-> secs]

\* KnownDirective::Known(dir) and KnownDirective::Unknown
Known(dir) == [known |-> TRUE, dir |-> dir]
Unknown == [known |-> FALSE, dir |-> Flag("Unknown")]

\* impl fmt::Display for Directive
Directive_fmt(dir) ==
    CASE dir.kind = "NoCache" -> <<"no-cache">>
      [] dir.kind = "NoStore" -> <<"no-store">>
      [] dir.kind = "NoTransform" -> <<"no-transform">>
      [] dir.kind = "OnlyIfCached" -> <<"only-if-cached">>
      [] dir.kind = "MaxAge" -> <<"max-age", "=">> \o FormatU64(dir.secs)
      [] dir.kind = "MaxStale" -> <<"max-stale", "=">> \o FormatU64(dir.secs)
      [] dir.kind = "MinFresh" -> <<"min-fresh", "=">> \o FormatU64(dir.secs)
      [] dir.kind = "MustRevalidate" -> <<"must-revalidate">>
      [] dir.kind = "MustUnderstand" -> <<"must-understand">>
      [] dir.kind = "Public" -> <<"public">>
      [] dir.kind = "Private" -> <<"private">>
      [] dir.kind = "Immutable" -> <<"immutable">>
      [] dir.kind = "ProxyRevalidate" -> <<"proxy-revalidate">>
      [] dir.kind = "SMaxAge" -> <<"s-maxage", "=">> \o FormatU64(dir.secs)
      [] dir.kind = "StaleWhileRevalidate" ->
             <<"stale-while-revalidate", "=">> \o FormatU64(dir.secs)
      [] dir.kind = "StaleIfError" ->
             <<"stale-if-error", "=">> \o FormatU64(dir.secs)

\* secs.parse().map(ctor).map_err(|_| ())? inside KnownDirective::from_str
ParseSecs(kind, secs) ==
    LET n == ParseU64(secs)
    IN  IF n.ok THEN Ok(Known(Numeric(kind, n.val))) ELSE Err

\* impl FromStr for KnownDirective
KnownDirective_from_str(s) ==
    CASE s = <<"no-cache">> -> Ok(Known(Flag("NoCache")))
      [] s = <<"no-store">> -> Ok(Known(Flag("NoStore")))
      [] s = <<"no-transform">> -> Ok(Known(Flag("NoTransform")))
      [] s = <<"only-if-cached">> -> Ok(Known(Flag("OnlyIfCached")))
      [] s = <<"must-revalidate">> -> Ok(Known(Flag("MustRevalidate")))
      [] s = <<"public">> -> Ok(Known(Flag("Public")))
      [] s = <<"private">> -> Ok(Known(Flag("Private")))
      [] s = <<"immutable">> -> Ok(Known(Flag("Immutable")))
      [] s = <<"must-understand">> -> Ok(Known(Flag("MustUnderstand")))
      [] s = <<"proxy-revalidate">> -> Ok(Known(Flag("ProxyRevalidate")))
      [] s = <<>> -> Err
      [] OTHER ->
           LET idx == Find(s, "=") IN
           IF idx # 0 /\ idx < Len(s)
           THEN LET name == SubSeq(s, 1, idx - 1)
                    secs == TrimMatches(SubSeq(s, idx + 1, Len(s)), "\"")
                IN  CASE name = <<"max-age">> -> ParseSecs("MaxAge", secs)
                      [] name = <<"max-stale">> -> ParseSecs("MaxStale", secs)
                      [] name = <<"min-fresh">> -> ParseSecs("MinFresh", secs)
                      [] name = <<"s-maxage">> -> ParseSecs("SMaxAge", secs)
                      [] name = <<"stale-while-revalidate">> ->
                             ParseSecs("StaleWhileRevalidate", secs)
                      [] name = <<"stale-if-error">> ->
                             ParseSecs("StaleIfError", secs)
                      [] OTHER -> Ok(Unknown)
           ELSE Ok(Unknown)

\* One turn of the loop of FromIter::from_iter.
ApplyDirective(c, dir) ==
    LET secs == Some(Seconds_from(Duration_from_secs(dir.secs))) IN
    CASE dir.kind = "NoCache" -> [c EXCEPT !.flags = Flags_insert(@, NO_CACHE)]
      [] dir.kind = "NoStore" -> [c EXCEPT !.flags = Flags_insert(@, NO_STORE)]
      [] dir.kind = "NoTransform" -> [c EXCEPT !.flags = Flags_insert(@, NO_TRANSFORM)]
      [] dir.kind = "OnlyIfCached" -> [c EXCEPT !.flags = Flags_insert(@, ONLY_IF_CACHED)]
      [] dir.kind = "MustRevalidate" -> [c EXCEPT !.flags = Flags_insert(@, MUST_REVALIDATE)]
      [] dir.kind = "MustUnderstand" -> [c EXCEPT !.flags = Flags_insert(@, MUST_UNDERSTAND)]
      [] dir.kind = "Public" -> [c EXCEPT !.flags = Flags_insert(@, PUBLIC)]
      [] dir.kind = "Private" -> [c EXCEPT !.flags = Flags_insert(@, PRIVATE)]
      [] dir.kind = "Immutable" -> [c EXCEPT !.flags = Flags_insert(@, IMMUTABLE)]
      [] dir.kind = "ProxyRevalidate" -> [c EXCEPT !.flags = Flags_insert(@, PROXY_REVALIDATE)]
      [] dir.kind = "MaxAge" -> [c EXCEPT !.max_age = secs]
      [] dir.kind = "MaxStale" -> [c EXCEPT !.max_stale = secs]
      [] dir.kind = "MinFresh" -> [c EXCEPT !.min_fresh = secs]
      [] dir.kind = "SMaxAge" -> [c EXCEPT !.s_max_age = secs]
      [] dir.kind = "StaleWhileRevalidate" -> [c EXCEPT !.stale_while_revalidate = secs]
      [] dir.kind = "StaleIfError" -> [c EXCEPT !.stale_if_error = secs]

RECURSIVE FromIterLoop_stops_at_unknown(_, _)
\* FromIterLoop with take_while in place of filter_map: the first unknown
\* directive ends the loop.
FromIterLoop_stops_at_unknown(c, dirs) ==
    IF dirs = <<>> \/ ~Head(dirs).known THEN c
    ELSE FromIterLoop_stops_at_unknown(ApplyDirective(c, Head(dirs).dir), Tail(dirs))

RECURSIVE FromIterLoop(_, _)
\* The filter_map and the for loop of FromIter::from_iter.
FromIterLoop(c, dirs) ==
    IF dirs = <<>> THEN c
    ELSE FromIterLoop(
             IF Head(dirs).known THEN ApplyDirective(c, Head(dirs).dir) ELSE c,
             Tail(dirs))

\* impl FromIterator<KnownDirective> for FromIter: unknown directives are
\* filtered out, the known ones are applied in order to CacheControl::new().
FromIter_from_iter(iter) == FromIterLoop(CacheControl_new, iter)

\* T::from_str for the type T that util/csv.rs parses the pieces into.
FromStr_from_str(T, s) ==
    CASE T = "KnownDirective" -> KnownDirective_from_str(s)

\* from_delimited of util/csv.rs: every string is split at the delimiters
\* outside quotes, the trimmed non-empty pieces are parsed into T, and the
\* results are collected; a piece that fails to parse gives Error::invalid().
from_delimited(strings, delimiter, T) ==
    LET pieces == AllPieces(strings, delimiter)
    IN  CollectResults([i \in 1..Len(pieces) |-> FromStr_from_str(T, pieces[i])])

\* from_comma_delimited of util/csv.rs
from_comma_delimited(values, T) == from_delimited(StrValues(values), ",", T)

\* CacheControl::decode
CacheControl_decode(values) ==
    LET r == from_comma_delimited(values, "KnownDirective")
    IN  IF r.ok THEN Ok(FromIter_from_iter(r.val)) ELSE Err

\* impl Display for Fmt: the directives that are set, in the order of the
\* slice, comma-delimited.
Fmt_fmt(c) ==
    LET if_flag(f, kind) ==
            IF Flags_contains(c.flags, f) THEN Some(Flag(kind)) ELSE None
        if_secs(o, kind) ==
            IF o # None THEN Some(Numeric(kind, Seconds_as_u64(o[1]))) ELSE None
        slice == <<
            if_flag(NO_CACHE, "NoCache"),
            if_flag(NO_STORE, "NoStore"),
            if_flag(NO_TRANSFORM, "NoTransform"),
            if_flag(ONLY_IF_CACHED, "OnlyIfCached"),
            if_flag(MUST_REVALIDATE, "MustRevalidate"),
            if_flag(PUBLIC, "Public"),
            if_flag(PRIVATE, "Private"),
            if_flag(IMMUTABLE, "Immutable"),
            if_flag(MUST_UNDERSTAND, "MustUnderstand"),
            if_flag(PROXY_REVALIDATE, "ProxyRevalidate"),
            if_secs(c.max_age, "MaxAge"),
            if_secs(c.max_stale, "MaxStale"),
            if_secs(c.min_fresh, "MinFresh"),
            if_secs(c.s_max_age, "SMaxAge") >>
        iter == SelectSome(slice)
    IN  fmt_comma_delimited([i \in 1..Len(iter) |-> Directive_fmt(iter[i])])

\* CacheControl::encode: one value, the text of Fmt.
CacheControl_encode(c) == <<Fmt_fmt(c)>>

-----------------------------------------------------------------------------
(* util/flat_csv.rs                                                        *)

Comma_SEP == ","
SemiColon_SEP == ";"

\* The mutation of FlatCsvMerge that leaves the separator out.
FlatCsvMerge_no_separator(buf, values, sep) == buf \o Concat(values)
RECURSIVE FlatCsvMerge(_, _, _)
\* for val in values { buf.extend(&[SEP, b' ']); buf.extend(val) }
FlatCsvMerge(buf, values, sep) ==
    IF values = <<>> THEN buf
    ELSE FlatCsvMerge(buf \o <<sep, " ">> \o Head(values), Tail(values), sep)

\* impl FromIterator<&HeaderValue> for FlatCsv: one value is kept as it is,
\* several (or none) are merged into one value.
FlatCsv_from_iter(values, sep) ==
    IF Len(values) = 1 THEN Head(values)
    ELSE FlatCsvMerge(IF values = <<>> THEN <<>> ELSE Head(values),
                      IF values = <<>> THEN <<>> ELSE Tail(values), sep)

\* FlatCsv::iter: nothing when the value is not text, else the value split
\* at every separator, each piece trimmed.
FlatCsv_iter(value, sep) ==
    LET r == to_str(value)
    IN  IF r.ok
        THEN LET pieces == Split(r.val, sep)
             IN  [i \in 1..Len(pieces) |-> Trim(pieces[i])]
        ELSE <<>>

-----------------------------------------------------------------------------
(* util/quality_value.rs                                                   *)

SemiQ_STR == <<";", "q", "=">>
SemiLevel_STR == <<";", "level", "=">>

\* impl TryFrom<&str> for QualityMeta: the text is split at the delimiter;
\* the last part is the quality and the part before it the data, or the only
\* part is the data with quality 1000.
QualityMeta_try_from(val, delm) ==
    LET parts == SplitStr(val, delm)
        n == Len(parts)
    IN  IF n >= 2
        THEN LET parsed == ParseF32(parts[n])
             IN  IF parsed.ok
                 THEN Ok([data |-> parts[n - 1],
                          quality |-> F32Times1000AsU16(parsed.val)])
                 ELSE Err
        ELSE Ok([data |-> parts[n], quality |-> 1000])

\* impl Ord for QualityMeta: other.quality.cmp(&self.quality); Less means
\* that a sorts before b.
QualityMeta_less(a, b) == b.quality < a.quality

RECURSIVE InsertSorted(_, _)
\* x goes after every element that does not sort after it.
InsertSorted(sorted, x) ==
    IF sorted = <<>> THEN <<x>>
    ELSE IF QualityMeta_less(x, Head(sorted)) THEN <<x>> \o sorted
    ELSE <<Head(sorted)>> \o InsertSorted(Tail(sorted), x)

RECURSIVE Sorted(_, _)
\* Itertools::sorted: a stable sort by Ord (insertion of the elements, in
\* their order, each after its equals).
Sorted(metas, acc) ==
    IF metas = <<>> THEN acc
    ELSE Sorted(Tail(metas), InsertSorted(acc, Head(metas)))

\* QualityValue::iter: every item is converted and unwrapped (a panic when
\* one fails), the items are sorted and their data is yielded.
QualityValue_iter(csv, delm) ==
    LET items == FlatCsv_iter(csv, Comma_SEP)
        metas == [i \in 1..Len(items) |-> QualityMeta_try_from(items[i], delm)]
    IN  IF \E i \in 1..Len(metas) : ~metas[i].ok THEN Panic
        ELSE LET sorted == Sorted([i \in 1..Len(metas) |-> metas[i].val], <<>>)
             IN  Returned([i \in 1..Len(sorted) |-> sorted[i].data])

\* impl TryFromValues for QualityValue: the values collected into a FlatCsv.
QualityValue_try_from_values(values) == Ok(FlatCsv_from_iter(values, Comma_SEP))

-----------------------------------------------------------------------------
(* common/content_coding.rs, common/accept_encoding.rs                     *)

\* ContentCoding::try_from_str
ContentCoding_try_from_str(s) ==
    CASE s \in { <<"BROTLI">>, <<"br">> } -> Ok("BROTLI")
      [] s \in { <<"COMPRESS">>, <<"compress">> } -> Ok("COMPRESS")
      [] s \in { <<"DEFLATE">>, <<"deflate">> } -> Ok("DEFLATE")
      [] s \in { <<"GZIP">>, <<"gzip">> } -> Ok("GZIP")
      [] s \in { <<"IDENTITY">>, <<"identity">> } -> Ok("IDENTITY")
      [] OTHER -> Err

\* ContentCoding::from_str
ContentCoding_from_str(s) ==
    LET r == ContentCoding_try_from_str(s) IN IF r.ok THEN r.val ELSE "IDENTITY"

\* Header::decode of AcceptEncoding(QualityValue)
AcceptEncoding_decode(values) == QualityValue_try_from_values(values)

\* AcceptEncoding::sorted_values
AcceptEncoding_sorted_values(self) == QualityValue_iter(self, SemiQ_STR)

\* AcceptEncoding::sorted_encodings
AcceptEncoding_sorted_encodings(self) ==
    LET it == QualityValue_iter(self, SemiQ_STR)
    IN  IF it.panic THEN Panic
        ELSE Returned([i \in 1..Len(it.val) |-> ContentCoding_from_str(it.val[i])])

\* AcceptEncoding::prefered_encoding
AcceptEncoding_prefered_encoding(self) ==
    LET it == QualityValue_iter(self, SemiQ_STR)
    IN  IF it.panic THEN Panic
        ELSE Returned(IF it.val = <<>> THEN None
                      ELSE Some(ContentCoding_from_str(it.val[1])))

-----------------------------------------------------------------------------
(* common/range.rs                                                         *)

\* enum ByteRangeSpec; Last holds a NonZeroU64.
FromTo(first, last) == [kind |-> "FromTo", first |-> first, last |-> last]
AllFrom(first) == [kind |-> "AllFrom", first |-> first, last |-> 0]
Last(suf_len) == [kind |-> "Last", first |-> suf_len, last |-> 0]

\* std::ops::Bound
Included(n) == [bound |-> "Included", n |-> n]
Excluded(n) == [bound |-> "Excluded", n |-> n]

u64_min(a, b) == IF a <= b THEN a ELSE b
saturating_sub(a, b) == IF a >= b THEN a - b ELSE 0

\* The FromTo arm without the clamp of last to the last byte.
FromTo_bounds_unclamped(first, last, len) ==
    IF first >= len \/ first > last THEN Err
    ELSE Ok(<<Included(first), Included(last)>>)

\* The FromTo arm of to_satisfiable_range_bounds.
FromTo_bounds(first, last, len) ==
    IF first >= len \/ first > last THEN Err
    ELSE Ok(<<Included(first), Included(u64_min(last, len - 1))>>)

\* The AllFrom arm with first > len for first >= len.
AllFrom_bounds_off_by_one(first, len) ==
    IF first > len THEN Err
    ELSE Ok(<<Included(first), Excluded(len)>>)

\* The AllFrom arm of to_satisfiable_range_bounds.
AllFrom_bounds(first, len) ==
    IF first >= len THEN Err
    ELSE Ok(<<Included(first), Excluded(len)>>)

\* The Last arm of to_satisfiable_range_bounds.
Last_bounds(suf_len, len) ==
    Ok(<<Included(saturating_sub(len, suf_len)), Excluded(len)>>)

\* ByteRangeSpec::to_satisfiable_range_bounds
ByteRangeSpec_to_satisfiable_range_bounds(self, len) ==
    IF len = 0 THEN Err
    ELSE CASE self.kind = "FromTo" -> FromTo_bounds(self.first, self.last, len)
           [] self.kind = "AllFrom" -> AllFrom_bounds(self.first, len)
           [] self.kind = "Last" -> Last_bounds(self.first, len)

-----------------------------------------------------------------------------
(* headers-core/src/lib.rs, headers-ext/src/common/expect.rs,              *)
(* headers-ext/src/common/referrer_policy.rs                               *)

\* struct Values: the values not yet taken (from either end) and the flag;
\* typed_get makes it with should_exhaust: true.
Values(inner) == [inner |-> inner, should_exhaust |-> TRUE]

\* Values::skip_exhaustive_iter_check
skip_exhaustive_iter_check(values) == [values EXCEPT !.should_exhaust = FALSE]

\* What a decode leaves: the Option<H> it returns and the Values after it.
Decoded(header, values) == [header |-> header, values |-> values]

\* Expect::decode: values.next()? == "100-continue"
Expect_decode(values) ==
    IF values.inner = <<>> THEN Decoded(None, values)
    ELSE Decoded(IF Head(values.inner) = <<"100-continue">> THEN Some("CONTINUE") ELSE None,
                 [values EXCEPT !.inner = Tail(@)])

\* The match of Policy::try_from_values on one token.
PolicyOf(s) ==
    CASE s \in { <<"no-referrer">>, <<"never">> } -> Some("NoReferrer")
      [] s \in { <<"no-referrer-when-downgrade">>, <<"default">> } -> Some("NoReferrerWhenDowngrade")
      [] s = <<"same-origin">> -> Some("SameOrigin")
      [] s = <<"origin">> -> Some("Origin")
      [] s = <<"origin-when-cross-origin">> -> Some("OriginWhenCrossOrigin")
      [] s = <<"strict-origin">> -> Some("StrictOrigin")
      [] s = <<"strict-origin-when-cross-origin">> -> Some("StrictOriginWhenCrossOrigin")
      [] s \in { <<"unsafe-url">>, <<"always">> } -> Some("UnsafeUrl")
      [] OTHER -> None

Reverse(seq) == [i \in 1..Len(seq) |-> seq[Len(seq) + 1 - i]]

\* The tokens of one value in their written order.
value_tokens_forward(value) ==
    LET r == to_str(value)
    IN  IF r.ok THEN TrimmedNonEmpty(Split(r.val, ",")) ELSE <<>>

\* The inner closure of reverse_csv: nothing for a value that is not text,
\* else string.split(',').rev() with every piece trimmed and the empty ones
\* dropped.
value_tokens(value) ==
    LET r == to_str(value)
    IN  IF r.ok THEN TrimmedNonEmpty(Reverse(Split(r.val, ","))) ELSE <<>>

\* The first token of the sequence that names a policy, None when none does.
FirstKnown(tokens) ==
    LET known == SelectSeq(tokens, LAMBDA t : PolicyOf(t) # None)
    IN  IF known = <<>> THEN None ELSE PolicyOf(Head(known))

RECURSIVE ScanReverseCsv(_)
\* The for loop of Policy::try_from_values over reverse_csv(values): values
\* are taken from the back, one at a time, until a token names a policy.
ScanReverseCsv(values) ==
    IF values.inner = <<>> THEN Decoded(None, values)
    ELSE LET n == Len(values.inner)
             rest == [values EXCEPT !.inner = SubSeq(@, 1, n - 1)]
             hit == FirstKnown(value_tokens(values.inner[n]))
         IN  IF hit # None THEN Decoded(hit, rest) ELSE ScanReverseCsv(rest)

\* Policy::try_from_values
Policy_try_from_values(values) == ScanReverseCsv(skip_exhaustive_iter_check(values))

\* Header::decode of ReferrerPolicy(Policy), as derived:
\* TryFromValues::try_from_values(values).map(ReferrerPolicy)
ReferrerPolicy_decode(values) == Policy_try_from_values(values)

\* The end of typed_get without the check that the values were consumed.
typed_get_result_unchecked(d) == d.header

\* The end of typed_get of headers-core, d being what H::decode left: None
\* when decode gave None (the ?), else the check of the iterator.
typed_get_result(d) ==
    IF d.header = None THEN None
    ELSE IF ~d.values.should_exhaust \/ d.values.inner = <<>> THEN d.header
    ELSE None

\* H::decode of headers-core for the header H.
Header_decode(H, values) ==
    CASE H = "expect" -> Expect_decode(values)
      [] H = "referrer-policy" -> ReferrerPolicy_decode(values)

\* HeaderMapExt::typed_get of headers-core, on the values under H::NAME.
core_typed_get(H, values) == typed_get_result(Header_decode(H, Values(values)))

-----------------------------------------------------------------------------
(* map_ext.rs and the decode of the single-value headers: common/range.rs, *)
(* common/host.rs, common/location.rs,                                     *)
(* common/access_control_request_method.rs                                 *)

\* str::splitn(2, c)
SplitN2(s, c) ==
    LET k == Find(s, c)
    IN  IF k = 0 THEN <<s>> ELSE <<SubSeq(s, 1, k - 1), SubSeq(s, k + 1, Len(s))>>

\* str::parse::<NonZeroU64>()
ParseNonZeroU64(s) ==
    LET r == ParseU64(s) IN IF r.ok /\ r.val # 0 THEN r ELSE Err

\* ByteRangeSpec::from_str without the guard start <= end.
ByteRangeSpec_from_str_any_order(s) ==
    LET parts == SplitN2(s, "-")
    IN  IF Len(parts) < 2 THEN Err
        ELSE IF parts[1] = <<>>
        THEN LET end == ParseNonZeroU64(parts[2])
             IN  IF end.ok THEN Ok(Last(end.val)) ELSE Err
        ELSE IF parts[2] = <<>>
        THEN LET start == ParseU64(parts[1])
             IN  IF start.ok THEN Ok(AllFrom(start.val)) ELSE Err
        ELSE LET start == ParseU64(parts[1])
                 end == ParseU64(parts[2])
             IN  IF start.ok /\ end.ok THEN Ok(FromTo(start.val, end.val)) ELSE Err

\* impl FromStr for ByteRangeSpec
ByteRangeSpec_from_str(s) ==
    LET parts == SplitN2(s, "-")
    IN  IF Len(parts) < 2 THEN Err
        ELSE IF parts[1] = <<>>
        THEN LET end == ParseNonZeroU64(parts[2])
             IN  IF end.ok THEN Ok(Last(end.val)) ELSE Err
        ELSE IF parts[2] = <<>>
        THEN LET start == ParseU64(parts[1])
             IN  IF start.ok THEN Ok(AllFrom(start.val)) ELSE Err
        ELSE LET start == ParseU64(parts[1])
                 end == ParseU64(parts[2])
             IN  IF start.ok /\ end.ok /\ start.val <= end.val
                 THEN Ok(FromTo(start.val, end.val))
                 ELSE Err

\* enum Range
Bytes(ranges) == [kind |-> "Bytes", ranges |-> ranges, unit |-> <<>>, set |-> <<>>]
Unregistered(unit, set) == [kind |-> "Unregistered", ranges |-> <<>>, unit |-> unit, set |-> set]

\* impl FromStr for Range
Range_from_str(s) ==
    LET iter == SplitN2(s, "=")
    IN  IF Len(iter) = 2 /\ iter[1] = <<"bytes">>
        THEN LET items == Split(iter[2], ",")
                 specs == CollectResults([i \in 1..Len(items) |-> ByteRangeSpec_from_str(items[i])])
             IN  IF specs.ok /\ specs.val # <<>> THEN Ok(Bytes(specs.val)) ELSE Err
        ELSE IF Len(iter) = 2 /\ iter[1] # <<>> /\ iter[2] # <<>>
        THEN Ok(Unregistered(iter[1], iter[2]))
        ELSE Err

\* impl Display for ByteRangeSpec
ByteRangeSpec_fmt(self) ==
    CASE self.kind = "FromTo" -> FormatU64(self.first) \o <<"-">> \o FormatU64(self.last)
      [] self.kind = "Last" -> <<"-">> \o FormatU64(self.first)
      [] self.kind = "AllFrom" -> FormatU64(self.first) \o <<"-">>

RECURSIVE RangesFmt(_, _)
\* The loop of Display for Range over ranges.iter().enumerate(), from i on.
RangesFmt(ranges, i) ==
    IF i > Len(ranges) THEN <<>>
    ELSE (IF i # 1 THEN <<",">> ELSE <<>>) \o ByteRangeSpec_fmt(ranges[i])
             \o RangesFmt(ranges, i + 1)

\* impl Display for Range
Range_fmt(self) ==
    CASE self.kind = "Bytes" -> <<"bytes", "=">> \o RangesFmt(self.ranges, 1)
      [] self.kind = "Unregistered" -> self.unit \o <<"=">> \o self.set

\* Range::decode: the first value, as text, parsed.
Range_decode(values) ==
    IF values = <<>> THEN Err
    ELSE LET str == to_str(Head(values))
         IN  IF str.ok THEN Range_from_str(str.val) ELSE Err

\* The parsers of the http crate that the next three decodes call
\* (Authority::try_from, Uri::from_str, Method::from_bytes), on the texts of
\* the scenarios: the empty text, white space and bytes >= 0x80 are refused.
Authority_try_from(bytes) ==
    IF bytes = <<>> \/ \E i \in 1..Len(bytes) : bytes[i] \in WhiteSpace \cup {OBS}
    THEN Err ELSE Ok([authority |-> bytes])
Uri_from_str(s) ==
    IF s = <<>> \/ \E i \in 1..Len(s) : s[i] \in WhiteSpace
    THEN Err ELSE Ok([uri |-> s])
Method_from_bytes(bytes) ==
    IF bytes = <<>> \/ \E i \in 1..Len(bytes) : bytes[i] \in WhiteSpace \cup {OBS}
    THEN Err ELSE Ok([method |-> bytes])

\* Host::decode: the first value through Authority::try_from.
Host_decode(values) ==
    IF values = <<>> THEN Err ELSE Authority_try_from(Head(values))

\* Location::decode: the first value, as text, parsed as a Uri.
Location_decode(values) ==
    IF values = <<>> THEN Err
    ELSE LET str == to_str(Head(values))
         IN  IF str.ok THEN Uri_from_str(str.val) ELSE Err

\* AccessControlRequestMethod::decode: the first value through
\* Method::from_bytes.
AccessControlRequestMethod_decode(values) ==
    IF values = <<>> THEN Err ELSE Method_from_bytes(Head(values))

\* H::decode for the single-value header H.
Decodable_decode(H, values) ==
    CASE H = "range" -> Range_decode(values)
      [] H = "host" -> Host_decode(values)
      [] H = "location" -> Location_decode(values)
      [] H = "access-control-request-method" -> AccessControlRequestMethod_decode(values)

\* The mutation of typed_try_get that decodes without looking at size_hint.
typed_try_get_always_decodes(H, values) ==
    LET r == Decodable_decode(H, values) IN IF r.ok THEN Ok(Some(r.val)) ELSE Err

\* HeaderMapExt::typed_try_get of map_ext.rs, on the values under H::name():
\* Ok(None) when there is none, else H::decode(&mut values).map(Some).
typed_try_get(H, values) ==
    IF Len(values) = 0 THEN Ok(None)
    ELSE LET r == Decodable_decode(H, values) IN IF r.ok THEN Ok(Some(r.val)) ELSE Err

\* HeaderMapExt::typed_get of map_ext.rs: typed_try_get(self).unwrap_or(None)
typed_get(H, values) ==
    LET r == typed_try_get(H, values) IN IF r.ok THEN r.val ELSE None

-----------------------------------------------------------------------------
(* util/http_date.rs, over the format and parse functions of the time      *)
(* crate. A date text is a sequence of digits, punctuation, single spaces   *)
(* and the words of day names, month names and GMT; a format is the         *)
(* sequence of its specifiers and literal pieces.                           *)

ShortDays == <<"Sun", "Mon", "Tue", "Wed", "Thu", "Fri", "Sat">>
LongDays ==
    <<"Sunday", "Monday", "Tuesday", "Wednesday", "Thursday", "Friday", "Saturday">>
MonthNames ==
    <<"Jan", "Feb", "Mar", "Apr", "May", "Jun",
      "Jul", "Aug", "Sep", "Oct", "Nov", "Dec">>

\* The position of x in names, 0 when it is not there.
IndexOf(names, x) ==
    IF \E i \in 1..Len(names) : names[i] = x
    THEN CHOOSE i \in 1..Len(names) : names[i] = x
    ELSE 0

\* The fields of a PrimitiveDateTime; a field not yet parsed is -1.
DateTime(y, mo, d, h, mi, s) ==
    [year |-> y, month |-> mo, day |-> d, hour |-> h, minute |-> mi, second |-> s]

\* Day of the week of a date of the Gregorian calendar, 0 for Sunday.
WeekdayOf(t) ==
    LET shift == <<0, 3, 2, 5, 0, 3, 5, 1, 4, 6, 2, 4>>
        y == IF t.month < 3 THEN t.year - 1 ELSE t.year
    IN  (y + (y \div 4) - (y \div 100) + (y \div 400) + shift[t.month] + t.day) % 7

\* n written with at least width digits, zero-padded.
ZeroPad(n, width) ==
    LET ds == FormatU64(n)
    IN  [i \in 1..(width - Len(ds)) |-> "0"] \o ds

\* The compound specifiers: %T is %-H:%M:%S, %c is %a %b %-d %-H:%M:%S %-Y.
RECURSIVE ExpandFormat(_)
ExpandFormat(format) ==
    IF format = <<>> THEN <<>>
    ELSE (CASE Head(format) = "%T" -> <<"%-H", ":", "%M", ":", "%S">>
            [] Head(format) = "%c" ->
                 <<"%a", " ", "%b", " ", "%-d", " ", "%-H", ":", "%M", ":", "%S",
                   " ", "%-Y">>
            [] OTHER -> <<Head(format)>>) \o ExpandFormat(Tail(format))

\* The numeric specifiers: the field each sets and how many digits it reads.
NumericSpecifiers ==
    "%d" :> [field |-> "day", least |-> 2, most |-> 2]
    @@ "%-d" :> [field |-> "day", least |-> 1, most |-> 2]
    @@ "%Y" :> [field |-> "year", least |-> 4, most |-> 4]
    @@ "%-Y" :> [field |-> "year", least |-> 1, most |-> 4]
    @@ "%y" :> [field |-> "year", least |-> 2, most |-> 2]
    @@ "%H" :> [field |-> "hour", least |-> 2, most |-> 2]
    @@ "%-H" :> [field |-> "hour", least |-> 1, most |-> 2]
    @@ "%M" :> [field |-> "minute", least |-> 2, most |-> 2]
    @@ "%S" :> [field |-> "second", least |-> 2, most |-> 2]

\* The number of leading digits of s, at most `most`.
DigitRun(s, most) ==
    LET ks == { k \in 0..Len(s) : k <= most /\ \A j \in 1..k : IsDigit(s[j]) }
    IN  CHOOSE k \in ks : \A k2 \in ks : k2 <= k

RECURSIVE ParseItems(_, _, _)
\* The text is read item by item of the format: a numeric specifier reads its
\* digits, %a, %A and %b read a name, a literal must be there as written.
\* The day of the week is read and not used; text left over is an error.
ParseItems(s, items, acc) ==
    IF items = <<>> THEN (IF s = <<>> THEN Ok(acc) ELSE Err)
    ELSE LET it == Head(items) IN
         IF it \in DOMAIN NumericSpecifiers
         THEN LET sp == NumericSpecifiers[it]
                  k == DigitRun(s, sp.most)
              IN  IF k < sp.least THEN Err
                  ELSE ParseItems(SubSeq(s, k + 1, Len(s)), Tail(items),
                                  [acc EXCEPT ![sp.field] = DigitsValue(SubSeq(s, 1, k), 0)])
         ELSE IF s = <<>> THEN Err
         ELSE IF it = "%b"
         THEN IF IndexOf(MonthNames, Head(s)) = 0 THEN Err
              ELSE ParseItems(Tail(s), Tail(items),
                              [acc EXCEPT !.month = IndexOf(MonthNames, Head(s))])
         ELSE IF   \/ it = "%a" /\ IndexOf(ShortDays, Head(s)) # 0
                   \/ it = "%A" /\ IndexOf(LongDays, Head(s)) # 0
                   \/ it \notin { "%a", "%A" } /\ it = Head(s)
              THEN ParseItems(Tail(s), Tail(items), acc)
              ELSE Err

\* PrimitiveDateTime::parse(s, format): the items are read, and the fields
\* must make a date and a time of day.
PrimitiveDateTime_parse(s, format) ==
    LET r == ParseItems(s, ExpandFormat(format), DateTime(-1, -1, -1, -1, -1, -1))
    IN  IF ~r.ok THEN Err
        ELSE IF /\ r.val.year >= 0
                /\ r.val.month \in 1..12
                /\ r.val.day \in 1..31
                /\ r.val.hour \in 0..23
                /\ r.val.minute \in 0..59
                /\ r.val.second \in 0..59
             THEN r
             ELSE Err

\* HttpDate::parse_gmt_date: a year of two digits is moved into 1969..2068.
parse_gmt_date(s, format) ==
    LET r == PrimitiveDateTime_parse(s, format)
    IN  IF ~r.ok THEN Err
        ELSE IF r.val.year \in 0..68 THEN Ok([r.val EXCEPT !.year = @ + 2000])
        ELSE IF r.val.year \in 69..99 THEN Ok([r.val EXCEPT !.year = @ + 1900])
        ELSE r

\* impl FromStr for HttpDate: "%a, %d %b %Y %T GMT", then
\* "%A, %d-%b-%y %T GMT", then "%c".
HttpDate_from_str(s) ==
    LET imf == parse_gmt_date(s, <<"%a", ",", " ", "%d", " ", "%b", " ", "%Y", " ",
                                   "%T", " ", "GMT">>)
        rfc850 == parse_gmt_date(s, <<"%A", ",", " ", "%d", "-", "%b", "-", "%y", " ",
                                      "%T", " ", "GMT">>)
        asctime == parse_gmt_date(s, <<"%c">>)
    IN  IF imf.ok THEN imf ELSE IF rfc850.ok THEN rfc850 ELSE asctime

RECURSIVE OffsetDateTime_format(_, _)
\* OffsetDateTime::format(format): a specifier gives its field of the date,
\* any other piece of the format is copied as it is.
OffsetDateTime_format(t, format) ==
    IF format = <<>> THEN <<>>
    ELSE LET it == Head(format) IN
         (CASE it = "%a" -> <<ShortDays[WeekdayOf(t) + 1]>>
            [] it = "%A" -> <<LongDays[WeekdayOf(t) + 1]>>
            [] it = "%b" -> <<MonthNames[t.month]>>
            [] it = "%d" -> ZeroPad(t.day, 2)
            [] it = "%Y" -> ZeroPad(t.year, 4)
            [] it = "%y" -> ZeroPad(t.year % 100, 2)
            [] it = "%H" -> ZeroPad(t.hour, 2)
            [] it = "%M" -> ZeroPad(t.minute, 2)
            [] it = "%S" -> ZeroPad(t.second, 2)
            [] it \in { "%-d", "%-Y", "%-H" } ->
                 FormatU64(t[NumericSpecifiers[it].field])
            [] OTHER -> <<it>>) \o OffsetDateTime_format(t, Tail(format))

\* impl fmt::Display for HttpDate: self.0.format("D, d M y H:i:s O")
HttpDate_fmt(t) ==
    OffsetDateTime_format(t, <<"D", ",", " ", "d", " ", "M", " ", "y", " ",
                               "H", ":", "i", ":", "s", " ", "O">>)

-----------------------------------------------------------------------------
(* map_ext.rs: typed_insert and ToValues. A HeaderMap is a function from   *)
(* header names to the sequence of values held under the name.             *)

\* self.entry(name): the entry is occupied when the map holds a value under
\* the name, vacant when it holds none.
State_First(map, name) ==
    IF map[name] = <<>> THEN "First(Vacant)" ELSE "First(Occupied)"

\* One turn of the loop of Extend::extend: the state is taken out (leaving
\* State::Tmp), an occupied first entry has its values replaced by the
\* value, a vacant one gets it, a latter one has it appended; the state then
\* is Latter. Taking State::Tmp out is the unreachable! branch.
ToValues_value(tv, name, value) ==
    LET taken == tv.state
        left == [tv EXCEPT !.state = "Tmp"]
    IN  CASE taken = "First(Occupied)" ->
               [state |-> "Latter", map |-> [left.map EXCEPT ![name] = <<value>>]]
          [] taken = "First(Vacant)" ->
               [state |-> "Latter", map |-> [left.map EXCEPT ![name] = <<value>>]]
          [] taken = "Latter" ->
               [state |-> "Latter", map |-> [left.map EXCEPT ![name] = Append(@, value)]]
          [] OTHER -> [left EXCEPT !.state = "unreachable"]

RECURSIVE ToValues_extend(_, _, _)
\* impl Extend<HeaderValue> for ToValues: for value in iter { .. }
ToValues_extend(tv, name, iter) ==
    IF iter = <<>> \/ tv.state = "unreachable" THEN tv
    ELSE ToValues_extend(ToValues_value(tv, name, Head(iter)), name, Tail(iter))

RECURSIVE Encodable_encode(_, _, _)
\* header.encode(&mut values): the extend calls of the encode, in order.
Encodable_encode(tv, name, extends) ==
    IF extends = <<>> THEN tv
    ELSE Encodable_encode(ToValues_extend(tv, name, Head(extends)), name, Tail(extends))

\* HeaderMapExt::typed_insert
typed_insert(map, name, extends) ==
    Encodable_encode([state |-> State_First(map, name), map |-> map], name, extends)

-----------------------------------------------------------------------------
(* common/forwarded.rs. An IPv4 address is one symbol, an IPv6 address the *)
(* sequence of its groups and colons; both are written in the form that    *)
(* IpAddr displays.                                                        *)

V4Addrs == { <<"10.0.0.1">> }
V6Addrs == { <<":", ":", "1">> }

\* IpAddr::from_str
IpAddr_from_str(s) ==
    IF s \in V4Addrs THEN Ok([kind |-> "IpAddr", v6 |-> FALSE, addr |-> s])
    ELSE IF s \in V6Addrs THEN Ok([kind |-> "IpAddr", v6 |-> TRUE, addr |-> s])
    ELSE Err

\* impl FromStr for NodeName
NodeName_from_str(s) ==
    LET bracketed == s # <<>> /\ Head(s) = "[" /\ s[Len(s)] = "]"
        addr == IF bracketed THEN IpAddr_from_str(SubSeq(s, 2, Len(s) - 1))
                ELSE IpAddr_from_str(s)
    IN  IF addr.ok THEN addr
        ELSE IF s = <<"unknown">> THEN Ok([kind |-> "Unknown"])
        ELSE IF s # <<>> /\ Head(s) = "_" THEN Ok([kind |-> "ObfNode", obfnode |-> s])
        ELSE Err

\* impl FromStr for NodePort
NodePort_from_str(s) ==
    IF ParseU64(s).ok /\ ParseU64(s).val <= U16_MAX
    THEN Ok([kind |-> "Port", port |-> ParseU64(s).val])
    ELSE IF s # <<>> /\ Head(s) = "_" THEN Ok([kind |-> "ObfPort", obfport |-> s])
    ELSE Err

\* impl FromStr for Node: a port is read after the last colon when that colon
\* stands after the first "]" (after the start, when there is no "]").
Node_from_str(s) ==
    LET require_colon_after == IF Find(s, "]") = 0 THEN 0 ELSE Find(s, "]") - 1
        colons == { i \in 1..Len(s) : s[i] = ":" }
        colon == IF colons = {} THEN -1
                 ELSE (CHOOSE i \in colons : \A j \in colons : j <= i) - 1
    IN  IF colon > require_colon_after
        THEN LET name == NodeName_from_str(SubSeq(s, 1, colon))
                 port == NodePort_from_str(SubSeq(s, colon + 2, Len(s)))
             IN  IF name.ok /\ port.ok
                 THEN Ok([name |-> name.val, port |-> Some(port.val)])
                 ELSE Err
        ELSE LET name == NodeName_from_str(s)
             IN  IF name.ok THEN Ok([name |-> name.val, port |-> None]) ELSE Err

\* impl fmt::Display for Node, with those of NodeName and NodePort: an IPv6
\* address is put in brackets, and the node in quotes when it has an IPv6
\* address or a port.
Node_fmt(node) ==
    LET name == CASE node.name.kind = "IpAddr" ->
                       IF node.name.v6 THEN <<"[">> \o node.name.addr \o <<"]">>
                       ELSE node.name.addr
                  [] node.name.kind = "Unknown" -> <<"unknown">>
                  [] node.name.kind = "ObfNode" -> node.name.obfnode
        port == IF node.port = None THEN <<>>
                ELSE <<":">> \o (IF node.port[1].kind = "Port"
                                 THEN FormatU64(node.port[1].port)
                                 ELSE node.port[1].obfport)
        needs_quoting ==
            (node.name.kind = "IpAddr" /\ node.name.v6) \/ node.port # None
    IN  IF needs_quoting THEN <<"\"">> \o name \o port \o <<"\"">> ELSE name \o port

\* Scheme::from_str: a scheme is one word of letters.
Scheme_from_str(s) ==
    IF Len(s) = 1 /\ s[1] \in { "http", "https" } THEN Ok([scheme |-> s]) ELSE Err

\* ForwardedElement::default()
ForwardedElement_default == [for |-> None, by |-> None, proto |-> None, host |-> None]

\* parameter.eq_ignore_ascii_case(..) against for, by, proto and host
ParameterOf(parameter) ==
    CASE parameter \in { <<"for">>, <<"For">>, <<"FOR">> } -> "for"
      [] parameter \in { <<"by">>, <<"By">>, <<"BY">> } -> "by"
      [] parameter \in { <<"proto">>, <<"Proto">>, <<"PROTO">> } -> "proto"
      [] parameter \in { <<"host">>, <<"Host">>, <<"HOST">> } -> "host"
      [] OTHER -> "other"

\* The body of the loop over the pairs of an element in Forwarded::decode:
\* the pair is split at its first "=", the value is parsed for the
\* parameter, and a parameter the element already has is an error.
DecodePair(element, pair) ==
    LET eq == Find(pair, "=")
        parameter == ParameterOf(SubSeq(pair, 1, eq - 1))
        value == SubSeq(pair, eq + 1, Len(pair))
        parsed == CASE parameter \in { "for", "by" } ->
                         Node_from_str(TrimMatches(value, "\""))
                    [] parameter = "proto" -> Scheme_from_str(TrimMatches(value, "\""))
                    [] parameter = "host" -> Host_decode(<<value>>)
                    [] OTHER -> Err
    IN  IF eq = 0 \/ ~parsed.ok \/ element[parameter] # None THEN Err
        ELSE Ok([element EXCEPT ![parameter] = Some(parsed.val)])

RECURSIVE DecodePairs(_, _)
\* for pair in pairs.iter() { .. }
DecodePairs(element, pairs) ==
    IF pairs = <<>> THEN Ok(element)
    ELSE LET r == DecodePair(element, Head(pairs)) IN
         IF r.ok THEN DecodePairs(r.val, Tail(pairs)) ELSE Err

RECURSIVE DecodeElements_one_guard(_, _)
\* The mutation of DecodeElements in which the parameters seen are not
\* forgotten at the start of an element.
DecodeElements_one_guard(parsed_elements, elements) ==
    IF elements = <<>> THEN Ok(parsed_elements)
    ELSE LET seen == IF parsed_elements = <<>> THEN ForwardedElement_default
                     ELSE parsed_elements[Len(parsed_elements)]
             r == DecodePairs(seen, FlatCsv_iter(Head(elements), SemiColon_SEP))
         IN  IF r.ok
             THEN DecodeElements_one_guard(Append(parsed_elements, r.val), Tail(elements))
             ELSE Err

RECURSIVE DecodeElements(_, _)
\* for element in elements.iter() { .. }: the pairs of the element are read
\* into a ForwardedElement::default().
DecodeElements(parsed_elements, elements) ==
    IF elements = <<>> THEN Ok(parsed_elements)
    ELSE LET r == DecodePairs(ForwardedElement_default,
                              FlatCsv_iter(Head(elements), SemiColon_SEP))
         IN  IF r.ok THEN DecodeElements(Append(parsed_elements, r.val), Tail(elements))
             ELSE Err

\* Forwarded::decode
Forwarded_decode(values) ==
    DecodeElements(<<>>, FlatCsv_iter(FlatCsv_from_iter(values, Comma_SEP), Comma_SEP))

RECURSIVE JoinParts(_)
\* parts.join(";")
JoinParts(parts) ==
    IF parts = <<>> THEN <<>>
    ELSE IF Len(parts) = 1 THEN Head(parts)
    ELSE Head(parts) \o <<";">> \o JoinParts(Tail(parts))

\* The value Forwarded::encode makes of one element.
ForwardedElement_encode(element) ==
    JoinParts(
        (IF element.for = None THEN <<>>
         ELSE << <<"for", "=">> \o Node_fmt(element.for[1]) >>)
        \o (IF element.by = None THEN <<>>
            ELSE << <<"by", "=">> \o Node_fmt(element.by[1]) >>)
        \o (IF element.proto = None THEN <<>>
            ELSE << <<"proto", "=">> \o element.proto[1].scheme >>)
        \o (IF element.host = None THEN <<>>
            ELSE << <<"host", "=">> \o element.host[1].authority >>))

\* Forwarded::encode: one value for every element.
Forwarded_encode(forwarded) ==
    [i \in 1..Len(forwarded) |-> ForwardedElement_encode(forwarded[i])]

-----------------------------------------------------------------------------
(* common/range.rs: ByteRangeBuilder. A u64 is modelled with WordBits      *)
(* bits; U64_MAX is the largest of them. Addition and subtraction that     *)
(* leave the range panic in a build with overflow checks and wrap around   *)
(* in a build without.                                                     *)

U64_MAX == Pow2(WordBits) - 1

Unbounded == [bound |-> "Unbounded", n |-> 0]

\* reduce_bounds: the inclusive first position and the inclusive last one,
\* if any; n + 1 and n - 1 are u64 arithmetic.
reduce_bounds(start, end, overflow_checks) ==
    LET first ==
            CASE start.bound = "Included" -> Returned(start.n)
              [] start.bound = "Excluded" ->
                   IF start.n + 1 > U64_MAX /\ overflow_checks THEN Panic
                   ELSE Returned((start.n + 1) % (U64_MAX + 1))
              [] start.bound = "Unbounded" -> Returned(0)
        last ==
            CASE end.bound = "Included" -> Returned(Some(end.n))
              [] end.bound = "Excluded" ->
                   IF end.n - 1 < 0 /\ overflow_checks THEN Panic
                   ELSE Returned(Some((end.n - 1) % (U64_MAX + 1)))
              [] end.bound = "Unbounded" -> Returned(None)
    IN  IF first.panic \/ last.panic THEN Panic
        ELSE Returned(<<first.val, last.val>>)

\* ByteRangeBuilder::range
ByteRangeBuilder_range(inner, start, end, overflow_checks) ==
    LET reduced == reduce_bounds(start, end, overflow_checks) IN
    IF reduced.panic THEN Panic
    ELSE LET first == reduced.val[1]
             last == reduced.val[2]
         IN  IF last # None
             THEN IF first > last[1] THEN Returned(Err)
                  ELSE Returned(Ok(Append(inner, FromTo(first, last[1]))))
             ELSE Returned(Ok(Append(inner, AllFrom(first))))

-----------------------------------------------------------------------------
(* common/cache_control.rs: getters and builders                           *)

\* A Duration with a sub-second part.
Duration_from_millis(millis) == Duration(millis \div 1000, (millis % 1000) * 1000000)

\* impl From<Seconds> for Duration: the count of whole seconds.
Duration_from(seconds) == Duration_from_secs(Seconds_as_u64(seconds))

\* The boolean getters: self.flags.contains(flag)
CacheControl_flag(self, flag) == Flags_contains(self.flags, flag)

\* The duration getters: self.field.map(Into::into)
CacheControl_duration(self, field) ==
    IF self[field] = None THEN None ELSE Some(Duration_from(self[field][1]))

\* The flag builders: self.flags.insert(flag); self
CacheControl_with_flag(self, flag) == [self EXCEPT !.flags = Flags_insert(@, flag)]

\* The duration builders: self.field = Some(duration.into()); self
CacheControl_with_duration(self, field, duration) ==
    [self EXCEPT ![field] = Some(Seconds_from(duration))]

-----------------------------------------------------------------------------
(* common/strict_transport_security.rs                                     *)

\* u8::to_ascii_lowercase on the words of the model that have capitals.
to_ascii_lowercase(c) ==
    CASE c \in { "includeSubdomains", "includeSubDomains", "INCLUDESUBDOMAINS" } ->
             "includesubdomains"
      [] c \in { "Max-Age", "MAX-AGE" } -> "max-age"
      [] c \in { "Rel", "REL" } -> "rel"
      [] c \in { "Next", "NEXT" } -> "next"
      [] OTHER -> c

\* str::eq_ignore_ascii_case
eq_ignore_ascii_case(a, b) ==
    /\ Len(a) = Len(b)
    /\ \A i \in 1..Len(a) : to_ascii_lowercase(a[i]) = to_ascii_lowercase(b[i])

\* The closure that from_str maps over the trimmed pieces: Some(directive),
\* or None for a max-age whose value is no number.
StsDirective(sub) ==
    IF eq_ignore_ascii_case(sub, <<"includeSubdomains">>)
    THEN Some([kind |-> "IncludeSubdomains", age |-> 0])
    ELSE LET parts == SplitN2(sub, "=") IN
         IF Len(parts) = 2 /\ eq_ignore_ascii_case(Trim(parts[1]), <<"max-age">>)
         THEN LET n == ParseU64(TrimMatches(Trim(parts[2]), "\""))
              IN  IF n.ok THEN Some([kind |-> "MaxAge", age |-> n.val]) ELSE None
         ELSE Some([kind |-> "Unknown", age |-> 0])

\* One turn of the fold in which a later max-age replaces the earlier one
\* and a repeated includeSubdomains is taken.
StsFoldStep_last_wins(res, dir) ==
    IF res = None \/ dir = None THEN None
    ELSE CASE dir[1].kind = "MaxAge" -> Some([res[1] EXCEPT !.age = Some(dir[1].age)])
           [] dir[1].kind = "IncludeSubdomains" -> Some([res[1] EXCEPT !.sub = Some("()")])
           [] OTHER -> res

\* The closure of the fold: res is Option<(Option<u64>, Option<()>)>.
StsFoldStep(res, dir) ==
    CASE res # None /\ dir # None /\ res[1].age = None /\ dir[1].kind = "MaxAge" ->
             Some([res[1] EXCEPT !.age = Some(dir[1].age)])
      [] res # None /\ dir # None /\ res[1].sub = None
             /\ dir[1].kind = "IncludeSubdomains" ->
             Some([res[1] EXCEPT !.sub = Some("()")])
      [] res # None /\ dir # None /\ res[1].age # None /\ dir[1].kind = "MaxAge" -> None
      [] res # None /\ dir # None /\ res[1].sub # None
             /\ dir[1].kind = "IncludeSubdomains" -> None
      [] dir = None -> None
      [] OTHER -> res

RECURSIVE StsFold(_, _)
\* Iterator::fold
StsFold(res, dirs) ==
    IF dirs = <<>> THEN res ELSE StsFold(StsFoldStep(res, Head(dirs)), Tail(dirs))

\* from_str of strict_transport_security.rs
StrictTransportSecurity_from_str(s) ==
    LET subs == Split(s, ";")
        dirs == [i \in 1..Len(subs) |-> StsDirective(Trim(subs[i]))]
        res == StsFold(Some([age |-> None, sub |-> None]), dirs)
    IN  IF res # None /\ res[1].age # None
        THEN Some([max_age |-> res[1].age[1], include_subdomains |-> res[1].sub # None])
        ELSE None

\* StrictTransportSecurity::decode: values.next()?.to_str().ok().and_then(from_str)
StrictTransportSecurity_decode(values) ==
    IF values = <<>> THEN None
    ELSE IF ~to_str(values[1]).ok THEN None
    ELSE StrictTransportSecurity_from_str(values[1])

-----------------------------------------------------------------------------
(* common/link.rs                                                          *)

\* LinkValue::new
LinkValue_new(uri) ==
    [link |-> uri, rel |-> None, anchor |-> None, rev |-> None,
     href_lang |-> None, media_desc |-> None, title |-> None,
     title_star |-> None, media_type |-> None]

\* Link::new
Link_new(link_values) == [values |-> link_values]

RECURSIVE TrimMatchesInStart(_, _)
TrimMatchesInStart(s, cs) ==
    IF s # <<>> /\ Head(s) \in cs THEN TrimMatchesInStart(Tail(s), cs) ELSE s

RECURSIVE TrimMatchesInEnd(_, _)
TrimMatchesInEnd(s, cs) ==
    IF s # <<>> /\ s[Len(s)] \in cs
    THEN TrimMatchesInEnd(SubSeq(s, 1, Len(s) - 1), cs) ELSE s

\* str::trim_matches(closure): cs are the characters the closure accepts.
TrimMatchesIn(s, cs) == TrimMatchesInEnd(TrimMatchesInStart(s, cs), cs)

\* fn verify_and_trim(s, b)
verify_and_trim(s, b0, b1) ==
    IF Len(s) > 1 /\ s[1] = b0 /\ s[Len(s)] = b1
    THEN Ok(TrimMatchesIn(s, { b0, b1 } \cup WhiteSpace))
    ELSE Err

RECURSIVE SegmentEnd(_, _, _, _)
\* The for loop of SplitAsciiUnquoted::next from index pos of src: the index
\* of the first delimiter outside quotes, Len(src) + 1 when there is none.
SegmentEnd(src, del, pos, in_quotes) ==
    IF pos > Len(src) THEN pos
    ELSE LET q == (in_quotes # (src[pos] = "\""))
         IN  IF ~q /\ src[pos] \in del THEN pos
             ELSE SegmentEnd(src, del, pos + 1, q)

RECURSIVE SplitAsciiUnquoted(_, _)
\* impl Iterator for SplitAsciiUnquoted, collected: nothing for the empty
\* text and no last empty segment after a closing delimiter.
SplitAsciiUnquoted(src, del) ==
    IF src = <<>> THEN <<>>
    ELSE LET pos == SegmentEnd(src, del, 1, FALSE)
         IN  <<SubSeq(src, 1, pos - 1)>>
                 \o SplitAsciiUnquoted(SubSeq(src, pos + 1, Len(src)), del)

\* The relation types and media descriptors with a name of their own.
KnownRelationTypes == { "next", "previous" }
KnownMediaDescs == { "screen", "print" }

\* FromStr of RelationType and of MediaDesc (the macro): never fails.
Typed_from_str(input, known) ==
    IF \E k \in known : eq_ignore_ascii_case(<<k>>, input)
    THEN [typed |-> CHOOSE k \in known : eq_ignore_ascii_case(<<k>>, input)]
    ELSE [custom |-> input]

\* The language tags and media types that the parsers of the crates
\* language_tags and mime accept, among the texts of the scenarios.
LanguageTags == { <<"de">> }
Mimes == { <<"text/plain">> }

LanguageTag_from_str(s) == IF s \in LanguageTags THEN Ok(s) ELSE Err
Mime_from_str(s) == IF s \in Mimes THEN Ok(s) ELSE Err

\* s.trim_matches(quote or whitespace).split(d).map(|t| t.trim().parse())
TypedList(s, d, known) ==
    LET pieces == Split(TrimMatchesIn(s, { "\"" } \cup WhiteSpace), d)
    IN  [i \in 1..Len(pieces) |-> Typed_from_str(Trim(pieces[i]), known)]

\* The else branch of the loop of Link::from_str: a parameter of the last
\* link-value. Ok(link_header) with the parameter read, or Err.
LinkParam(link_header, segment) ==
    LET parts == SplitN2(segment, "=")
        link_param_name == Trim(parts[1])
        missing == Len(parts) < 2 \/ parts[2] = <<>>
        s == parts[2]
        is(name) == eq_ignore_ascii_case(<<name>>, link_param_name)
    IN  IF is("rel") THEN
            IF link_header.rel # None THEN Ok(link_header)
            ELSE IF missing THEN Err
            ELSE Ok([link_header EXCEPT
                         !.rel = Some(TypedList(s, " ", KnownRelationTypes))])
        ELSE IF is("anchor") THEN
            IF missing THEN Err
            ELSE LET a == verify_and_trim(Trim(s), "\"", "\"")
                 IN  IF a.ok THEN Ok([link_header EXCEPT !.anchor = Some(a.val)])
                     ELSE Err
        ELSE IF is("rev") THEN
            IF link_header.rev # None THEN Ok(link_header)
            ELSE IF missing THEN Err
            ELSE Ok([link_header EXCEPT
                         !.rev = Some(TypedList(s, " ", KnownRelationTypes))])
        ELSE IF is("hreflang") THEN
            IF missing THEN Err
            ELSE LET t == LanguageTag_from_str(Trim(s))
                     v == IF link_header.href_lang = None THEN <<>>
                          ELSE link_header.href_lang[1]
                 IN  IF t.ok
                     THEN Ok([link_header EXCEPT !.href_lang = Some(Append(v, t.val))])
                     ELSE Err
        ELSE IF is("media") THEN
            IF link_header.media_desc # None THEN Ok(link_header)
            ELSE IF missing THEN Err
            ELSE Ok([link_header EXCEPT
                         !.media_desc = Some(TypedList(s, ",", KnownMediaDescs))])
        ELSE IF is("title") THEN
            IF link_header.title # None THEN Ok(link_header)
            ELSE IF missing THEN Err
            ELSE LET t == verify_and_trim(Trim(s), "\"", "\"")
                 IN  IF t.ok THEN Ok([link_header EXCEPT !.title = Some(t.val)])
                     ELSE Err
        ELSE IF is("title*") THEN
            IF link_header.title_star # None THEN Ok(link_header)
            ELSE IF missing THEN Err
            ELSE Ok([link_header EXCEPT !.title_star = Some(Trim(s))])
        ELSE IF is("type") THEN
            IF link_header.media_type # None THEN Ok(link_header)
            ELSE IF missing THEN Err
            ELSE LET t == verify_and_trim(Trim(s), "\"", "\"")
                     m == Mime_from_str(t.val)
                 IN  IF t.ok /\ m.ok
                     THEN Ok([link_header EXCEPT !.media_type = Some(m.val)])
                     ELSE Err
        ELSE Err

RECURSIVE LinkSegments(_, _)
\* The loop of Link::from_str over the segments, link_values being the
\* link-values read so far.
LinkSegments(segments, link_values) ==
    IF segments = <<>> THEN Ok(Link_new(link_values))
    ELSE LET segment == Head(segments)
             trimmed == Trim(segment)
         IN  IF trimmed # <<>> /\ Head(trimmed) = "<"
             THEN LET t == verify_and_trim(trimmed, "<", ">")
                  IN  IF t.ok
                      THEN LinkSegments(Tail(segments),
                                        Append(link_values, LinkValue_new(t.val)))
                      ELSE Err
             ELSE IF link_values = <<>> THEN Err
             ELSE LET n == Len(link_values)
                      p == LinkParam(link_values[n], segment)
                  IN  IF p.ok
                      THEN LinkSegments(Tail(segments),
                                        [link_values EXCEPT ![n] = p.val])
                      ELSE Err

\* impl FromStr for Link
Link_from_str(s) == LinkSegments(SplitAsciiUnquoted(s, { ";", "," }), <<>>)

\* The closure that decode maps over the lines.
LinkLine(line) ==
    LET text == to_str(line) IN IF text.ok THEN Link_from_str(text.val) ELSE Err

\* The closure of fold in decode, with every arm keeping the later line:
\* an error is forgotten when a later line parses.
LinkFoldStep_forgets_error(p, c) ==
    IF p = None THEN Some(c)
    ELSE IF p[1].ok /\ c.ok
    THEN Some(Ok([p[1].val EXCEPT !.values = @ \o c.val.values]))
    ELSE Some(c)

\* The closure of fold in decode: p is None or Some(Result), c a Result.
LinkFoldStep(p, c) ==
    IF p = None THEN Some(c)
    ELSE IF ~p[1].ok THEN p
    ELSE IF c.ok
    THEN Some(Ok([p[1].val EXCEPT !.values = @ \o c.val.values]))
    ELSE Some(Err)

RECURSIVE LinkFold(_, _)
\* Iterator::fold over the mapped lines.
LinkFold(lines, p) ==
    IF lines = <<>> THEN p
    ELSE LinkFold(Tail(lines), LinkFoldStep(p, LinkLine(Head(lines))))

\* Link::decode
Link_decode(values) ==
    LET p == LinkFold(values, None) IN IF p = None THEN Err ELSE p[1]

-----------------------------------------------------------------------------
(* util/http_date.rs: conversions with SystemTime                          *)

\* OffsetDateTime::from_unix_timestamp: a date and time of day in UTC, kept
\* as its timestamp and its nanosecond.
OffsetDateTime_from_unix_timestamp(timestamp) ==
    [timestamp |-> timestamp, nanosecond |-> 0]

\* OffsetDateTime::second: the second within the minute of the clock time.
OffsetDateTime_second(odt) == odt.timestamp % 60

\* Duration::new(secs, nanos), in milliseconds.
Duration_new(secs, nanos) == secs * 1000 + nanos \div 1000000

\* Duration::as_secs of a Duration in milliseconds.
Duration_as_secs(dur) == dur \div 1000

\* impl From<SystemTime> for HttpDate
HttpDate_from_SystemTime(sys) ==
    IF sys >= 0
    THEN OffsetDateTime_from_unix_timestamp(Duration_as_secs(sys))
    ELSE OffsetDateTime_from_unix_timestamp(-Duration_as_secs(-sys))

\* impl From<HttpDate> for SystemTime
SystemTime_from_HttpDate(odt) ==
    IF odt.timestamp >= 0
    THEN Duration_new(OffsetDateTime_second(odt), odt.nanosecond)
    ELSE -Duration_new(OffsetDateTime_second(odt), odt.nanosecond)

-----------------------------------------------------------------------------
(* Scenarios.  Each specification runs the scenarios of one header and     *)
(* leaves the variables of the others at rest.                             *)

RECURSIVE WiresOf(_, _)
\* The messages with exactly n list tokens: every token either opens a new
\* header value or is added, after ", ", to the last value.
WiresOf(tokens, n) ==
    IF n = 0 THEN { <<>> }
    ELSE LET shorter == WiresOf(tokens, n - 1) IN
         { Append(w, t) : w \in shorter, t \in tokens }
         \cup { [w EXCEPT ![Len(w)] = @ \o <<",", " ">> \o t] :
                    w \in shorter \ { <<>> }, t \in tokens }

IdleCC == cc = CacheControl_new /\ calls = 0 /\ wire = <<>> /\ decoded = NoResult
IdleAE == aeWire = <<>> /\ accept = None /\ aeOut = NoOut
IdleRange == rspec = AllFrom(0) /\ rlen = 0 /\ rout = NoResult
IdleMap == hname = "none" /\ held = <<>> /\ got = NoResult
IdleCsv ==
    fcSep = "," /\ fcValues = <<>> /\ flat = None /\ fcTokens = <<>> /\ csvOut = NoResult
IdleBld == brInner = <<>> /\ brBounds = <<>> /\ brOut = NoOut
IdleQv == qvItem = <<>> /\ qvDelm = SemiQ_STR /\ qvMeta = NoResult /\ qvYield = NoOut
IdleKd == kdName = "none" /\ kdText = <<>> /\ kdWire = <<>> /\ kdOut = NoResult
IdleBd == built = CacheControl_new /\ called = <<>>
IdleNd == ndStr = <<>> /\ ndOut = NoResult
IdleSts == stsShape = <<>> /\ stsWire = <<>> /\ stsOut = NoOut
IdleRp == rpStr = <<>> /\ rpOut = NoResult /\ rpShown = <<>> /\ rpAgain = NoResult
IdleLink == linkLines = <<>> /\ linkOut = NoResult
IdleSt == stVia = "" /\ stTime = 0 /\ stDate = None /\ stBack = None
IdleDate == dateStr = <<>> /\ written = None /\ date = NoResult /\ shown = <<>>
IdleFwd ==
    /\ fwdShape = <<>>
    /\ fwdWire = <<>>
    /\ fwd = NoResult
    /\ fwdValues = <<>>
    /\ fwdAgain = NoResult
IdleIns ==
    /\ insName = "none"
    /\ before = <<>>
    /\ hmap = <<>>
    /\ pushed = <<>>
    /\ tvState = "none"

-----------------------------------------------------------------------------
(* Accept-Encoding scenarios: the values of a received message are decoded *)
(* and an accessor is called on the AcceptEncoding.                        *)

CodingInputs == { "gzip", "br" }

\* Weight suffixes of the list items: none, numbers, and one that is not a
\* number.
WeightInputs ==
    { <<>>,
      <<";", "q", "=", "1", ".", "0">>,
      <<";", "q", "=", "0", ".", "2", "5">>,
      <<";", "q", "=", "0", ".", "2", "5", "1">>,
      <<";", "q", "=", "abc">> }

ItemInputs == { <<c>> \o w : c \in CodingInputs, w \in WeightInputs }

\* The messages that hold the header: typed_try_get decodes only when the map
\* has a value under the name.
AEWireInputs == UNION { WiresOf(ItemInputs, n) : n \in 1..MaxItems }

GivenAE ==
    /\ pc = "ae_received"
    /\ aeWire \in AEWireInputs
    /\ accept = None
    /\ aeOut = NoOut

\* AcceptEncoding::decode of the values of the message (it cannot fail).
DecodeAcceptEncoding ==
    /\ pc = "ae_received"
    /\ accept' = Some(AcceptEncoding_decode(aeWire).val)
    /\ pc' = "ae_decoded"
    /\ UNCHANGED <<aeWire, aeOut, notAE>>

sorted_values ==
    /\ pc = "ae_decoded"
    /\ aeOut' = AcceptEncoding_sorted_values(accept[1])
    /\ pc' = "ae_sorted_values"
    /\ UNCHANGED <<aeWire, accept, notAE>>

sorted_encodings ==
    /\ pc = "ae_decoded"
    /\ aeOut' = AcceptEncoding_sorted_encodings(accept[1])
    /\ pc' = "ae_sorted_encodings"
    /\ UNCHANGED <<aeWire, accept, notAE>>

prefered_encoding ==
    /\ pc = "ae_decoded"
    /\ aeOut' = AcceptEncoding_prefered_encoding(accept[1])
    /\ pc' = "ae_prefered_encoding"
    /\ UNCHANGED <<aeWire, accept, notAE>>

NextAE ==
    \/ DecodeAcceptEncoding
    \/ sorted_values
    \/ sorted_encodings
    \/ prefered_encoding

-----------------------------------------------------------------------------
(* Cache-Control scenarios: a CacheControl is built by with_* calls and    *)
(* encoded and decoded again, or the values of a received message are      *)
(* decoded (and the result may then be the value that is built on).        *)

\* Durations handed to the with_* builders: whole seconds.
DurationInputs == { Duration_from_secs(0), Duration_from_secs(7), Duration_from_secs(12) }

\* List tokens of received Cache-Control values.
TokenInputs ==
    { <<"no-cache">>,
      <<"max-age", "=", "5">>,
      <<"max-age", "=", "\"", "1", "2", "\"">>,
      <<"max-age", "=", "lolz">>,
      <<"foo">>,
      <<"bar", "=", "baz">>,
      <<"bar", "=", "\"">>,
      <<OBS>>,
      <<>> }

WireInputs == UNION { WiresOf(TokenInputs, n) : n \in 0..MaxTokens }

GivenCC ==
    /\ cc = CacheControl_new
    /\ calls = 0
    /\ decoded = NoResult
    /\ \/ pc = "building" /\ wire = <<>>
       \/ pc = "received" /\ wire \in WireInputs

\* A with_* builder for a flag.
WithFlag(flag) ==
    /\ pc = "building"
    /\ calls < MaxCalls
    /\ cc' = [cc EXCEPT !.flags = Flags_insert(@, flag)]
    /\ calls' = calls + 1
    /\ UNCHANGED <<pc, wire, decoded, notCC>>

with_no_cache == WithFlag(NO_CACHE)
with_no_store == WithFlag(NO_STORE)
with_no_transform == WithFlag(NO_TRANSFORM)
with_only_if_cached == WithFlag(ONLY_IF_CACHED)
with_private == WithFlag(PRIVATE)
with_public == WithFlag(PUBLIC)
with_immutable == WithFlag(IMMUTABLE)
with_must_revalidate == WithFlag(MUST_REVALIDATE)
with_must_understand == WithFlag(MUST_UNDERSTAND)

\* A with_* builder for a duration: the field becomes Some(duration.into()).
WithSeconds(field) ==
    /\ pc = "building"
    /\ calls < MaxCalls
    /\ \E duration \in DurationInputs :
           cc' = [cc EXCEPT ![field] = Some(Seconds_from(duration))]
    /\ calls' = calls + 1
    /\ UNCHANGED <<pc, wire, decoded, notCC>>

with_max_age == WithSeconds("max_age")
with_max_stale == WithSeconds("max_stale")
with_min_fresh == WithSeconds("min_fresh")
with_s_max_age == WithSeconds("s_max_age")
with_stale_while_revalidate == WithSeconds("stale_while_revalidate")
with_stale_if_error == WithSeconds("stale_if_error")

\* encode(cc, &mut values) on an empty sink.
Encode ==
    /\ pc = "building"
    /\ wire' = CacheControl_encode(cc)
    /\ pc' = "encoded"
    /\ UNCHANGED <<cc, calls, decoded, notCC>>

\* decode of the values that encode pushed.
DecodeEncoded ==
    /\ pc = "encoded"
    /\ decoded' = CacheControl_decode(wire)
    /\ pc' = "roundtrip"
    /\ UNCHANGED <<cc, calls, wire, notCC>>

\* decode of the values of a received message.
DecodeReceived ==
    /\ pc = "received"
    /\ decoded' = CacheControl_decode(wire)
    /\ pc' = "parsed"
    /\ UNCHANGED <<cc, calls, wire, notCC>>

\* The CacheControl that decode returned becomes the value in hand.
TakeDecoded ==
    /\ pc = "parsed"
    /\ decoded.ok
    /\ cc' = decoded.val
    /\ pc' = "building"
    /\ wire' = <<>>
    /\ decoded' = NoResult
    /\ UNCHANGED <<calls, notCC>>

NextCC ==
    \/ with_no_cache \/ with_no_store \/ with_no_transform
    \/ with_only_if_cached \/ with_private \/ with_public
    \/ with_immutable \/ with_must_revalidate \/ with_must_understand
    \/ with_max_age \/ with_max_stale \/ with_min_fresh \/ with_s_max_age
    \/ with_stale_while_revalidate \/ with_stale_if_error
    \/ Encode \/ DecodeEncoded \/ DecodeReceived \/ TakeDecoded

-----------------------------------------------------------------------------
(* Range scenarios: a ByteRangeSpec is applied to a resource length.       *)

SpecInputs ==
    { FromTo(first, last) : first \in 0..MaxPos, last \in 0..MaxPos }
        \cup { AllFrom(first) : first \in 0..MaxPos }
        \cup { Last(suf_len) : suf_len \in 1..MaxPos }

GivenRange ==
    /\ pc = "range_given"
    /\ rspec \in SpecInputs
    /\ rlen \in 0..MaxLen
    /\ rout = NoResult

to_satisfiable_range_bounds ==
    /\ pc = "range_given"
    /\ rout' = ByteRangeSpec_to_satisfiable_range_bounds(rspec, rlen)
    /\ pc' = "range_bounds"
    /\ UNCHANGED <<rspec, rlen, notRange>>

NextRange == to_satisfiable_range_bounds

-----------------------------------------------------------------------------
(* headers-core scenarios: a map holds values under Expect or under        *)
(* Referrer-Policy, and the header is decoded or asked for with typed_get. *)

PolicyTokenInputs ==
    { <<"origin">>, <<"never">>, <<"nope">>, <<"100-continue">>, <<OBS>>, <<>> }

HeldInputs == UNION { WiresOf(PolicyTokenInputs, n) : n \in 0..MaxPolicyTokens }

GivenCore ==
    /\ pc = "core_held"
    /\ hname \in { "expect", "referrer-policy" }
    /\ held \in HeldInputs
    /\ got = NoResult

\* ReferrerPolicy::decode on the values.
decode_ReferrerPolicy ==
    /\ pc = "core_held" /\ hname = "referrer-policy"
    /\ got' = ReferrerPolicy_decode(Values(held)).header
    /\ pc' = "core_decoded"
    /\ UNCHANGED <<hname, held, notMap>>

\* map.typed_get::<ReferrerPolicy>()
typed_get_ReferrerPolicy ==
    /\ pc = "core_held" /\ hname = "referrer-policy"
    /\ got' = core_typed_get("referrer-policy", held)
    /\ pc' = "core_typed_get"
    /\ UNCHANGED <<hname, held, notMap>>

\* map.typed_get::<Expect>()
typed_get_Expect ==
    /\ pc = "core_held" /\ hname = "expect"
    /\ got' = core_typed_get("expect", held)
    /\ pc' = "core_typed_get"
    /\ UNCHANGED <<hname, held, notMap>>

NextCore ==
    \/ decode_ReferrerPolicy
    \/ typed_get_ReferrerPolicy
    \/ typed_get_Expect

-----------------------------------------------------------------------------
(* map_ext scenarios: a map holds values under the name of a header that   *)
(* takes one value, and the header is decoded or asked for.                *)

SingleValueHeaders == { "range", "host", "location", "access-control-request-method" }

\* The texts a value under the name may hold.
ValueInputs(name) ==
    CASE name = "range" ->
            { <<"bytes", "=", "0", "-", "1">>, <<"bytes", "=", "2", "-">>,
              <<"bytes", "=", "1", "-", "0">>, <<OBS>> }
      [] name = "host" -> { <<"example.com">>, <<>>, <<OBS>> }
      [] name = "location" -> { <<"/index.html">>, <<>>, <<OBS>> }
      [] name = "access-control-request-method" -> { <<"GET">>, <<"PUT">>, <<>>, <<OBS>> }

SeqsUpTo(S, n) == UNION { [1..k -> S] : k \in 0..n }

GivenExt ==
    /\ pc = "ext_held"
    /\ hname \in SingleValueHeaders
    /\ held \in SeqsUpTo(ValueInputs(hname), MaxValues)
    /\ got = NoResult

\* H::decode(&mut values) on the values.
DecodeHeader ==
    /\ pc = "ext_held"
    /\ got' = Decodable_decode(hname, held)
    /\ pc' = "ext_decoded"
    /\ UNCHANGED <<hname, held, notMap>>

\* map.typed_try_get::<H>()
TypedTryGet ==
    /\ pc = "ext_held"
    /\ got' = typed_try_get(hname, held)
    /\ pc' = "ext_typed_try_get"
    /\ UNCHANGED <<hname, held, notMap>>

\* map.typed_get::<H>()
TypedGet ==
    /\ pc = "ext_held"
    /\ got' = typed_get(hname, held)
    /\ pc' = "ext_typed_get"
    /\ UNCHANGED <<hname, held, notMap>>

NextExt ==
    \/ DecodeHeader
    \/ TypedTryGet
    \/ TypedGet

-----------------------------------------------------------------------------
(* FlatCsv scenarios: header values are collected into a FlatCsv, which is *)
(* then iterated.                                                          *)

\* List items as they appear on the wire: plain tokens, quoted strings that
\* hold a separator, a directive that does not parse, the empty item, and a
\* value that is not text.
CsvTokenInputs ==
    { <<"a">>, <<"b">>,
      <<"\"", "x", ",", "y", "\"">>,
      <<"\"", "x", ";", "y", "\"">>,
      <<"max-age", "=", "x">>,
      <<>>, <<OBS>> }

CsvValueInputs == UNION { WiresOf(CsvTokenInputs, n) : n \in 0..MaxCsvTokens }

GivenCsv ==
    /\ pc = "csv_given"
    /\ fcSep \in { Comma_SEP, SemiColon_SEP }
    /\ fcValues \in CsvValueInputs
    /\ flat = None
    /\ fcTokens = <<>>
    /\ csvOut = NoResult

\* FlatCsv::try_from_values(values): values.collect()
FlatCsv_try_from_values ==
    /\ pc = "csv_given"
    /\ flat' = Some(FlatCsv_from_iter(fcValues, fcSep))
    /\ pc' = "csv_built"
    /\ UNCHANGED <<fcSep, fcValues, fcTokens, csvOut, notCsv>>

\* flat.iter().collect()
FlatCsvIter ==
    /\ pc = "csv_built"
    /\ fcTokens' = FlatCsv_iter(flat[1], fcSep)
    /\ pc' = "csv_iterated"
    /\ UNCHANGED <<fcSep, fcValues, flat, csvOut, notCsv>>

\* csv::from_delimited::<_, KnownDirective, Vec<_>>(strings, delimiter), the
\* strings being the values, all of them text
FromDelimited ==
    /\ pc = "csv_given"
    /\ \A i \in 1..Len(fcValues) : to_str(fcValues[i]).ok
    /\ csvOut' = from_delimited(fcValues, fcSep, "KnownDirective")
    /\ pc' = "csv_from_delimited"
    /\ UNCHANGED <<fcSep, fcValues, flat, fcTokens, notCsv>>

\* csv::from_comma_delimited::<_, KnownDirective, Vec<_>>(values)
FromCommaDelimited ==
    /\ pc = "csv_given"
    /\ fcSep = Comma_SEP
    /\ csvOut' = from_comma_delimited(fcValues, "KnownDirective")
    /\ pc' = "csv_from_comma_delimited"
    /\ UNCHANGED <<fcSep, fcValues, flat, fcTokens, notCsv>>

NextCsv ==
    \/ FlatCsv_try_from_values
    \/ FlatCsvIter
    \/ FromDelimited
    \/ FromCommaDelimited

-----------------------------------------------------------------------------
(* HTTP date scenarios: a text is parsed into an HttpDate, which is then   *)
(* written back (Display, as the encode of Expires, Date and the like do). *)

\* The instants the texts are written for.
InstantInputs ==
    { DateTime(y, mo, d, h, 49, s) :
        y \in { 1969, 1994, 1999, 2000, 2015, 2068 }, mo \in { 2, 11 },
        d \in { 6, 7, 28 }, h \in { 8, 23 }, s \in { 0, 37 } }

\* Instants of the first century, whose year has four digits only when it
\* is written with its leading zeros.
EarlyInstantInputs ==
    { DateTime(y, 11, 6, 8, 49, 37) : y \in { 0, 50, 68, 69, 94, 99 } }

\* The three forms of RFC 7231 for an instant: IMF-fixdate, RFC 850 and
\* asctime (with the day of the month as the tests write it).
ImfFixdate(t) ==
    <<ShortDays[WeekdayOf(t) + 1], ",", " ">> \o ZeroPad(t.day, 2) \o <<" ">>
        \o <<MonthNames[t.month], " ">> \o ZeroPad(t.year, 4) \o <<" ">>
        \o ZeroPad(t.hour, 2) \o <<":">> \o ZeroPad(t.minute, 2) \o <<":">>
        \o ZeroPad(t.second, 2) \o <<" ", "GMT">>

Rfc850Date(t) ==
    <<LongDays[WeekdayOf(t) + 1], ",", " ">> \o ZeroPad(t.day, 2) \o <<"-">>
        \o <<MonthNames[t.month], "-">> \o ZeroPad(t.year % 100, 2) \o <<" ">>
        \o ZeroPad(t.hour, 2) \o <<":">> \o ZeroPad(t.minute, 2) \o <<":">>
        \o ZeroPad(t.second, 2) \o <<" ", "GMT">>

AsctimeDate(t) ==
    <<ShortDays[WeekdayOf(t) + 1], " ", MonthNames[t.month], " ">>
        \o FormatU64(t.day) \o <<" ">>
        \o ZeroPad(t.hour, 2) \o <<":">> \o ZeroPad(t.minute, 2) \o <<":">>
        \o ZeroPad(t.second, 2) \o <<" ">> \o ZeroPad(t.year, 4)

\* Texts in none of the three forms.
NoDateInputs ==
    { <<"this-is-no-date">>,
      <<>>,
      <<"Sun", ",", " ", "0", "6", " ", "Nov", " ", "1", "9", "9", "4">>,
      <<"Sun", ",", " ", "0", "6", " ", "Foo", " ", "1", "9", "9", "4", " ",
        "0", "8", ":", "4", "9", ":", "3", "7", " ", "GMT">>,
      <<"Sunday", ",", " ", "0", "6", "-", "Nov", "-", "9", "4", " ",
        "0", "8", ":", "4", "9", ":", "3", "7", " ", "UTC">>,
      <<"Sun", " ", "Nov", " ", "6", " ", "0", "8", ":", "4", "9", " ",
        "1", "9", "9", "4">> }

GivenDate ==
    /\ pc = "date_given"
    /\ \/ \E t \in InstantInputs :
            /\ written = Some(t)
            /\ dateStr \in { ImfFixdate(t), Rfc850Date(t), AsctimeDate(t) }
       \/ \E t \in EarlyInstantInputs :
            /\ written = Some(t)
            /\ dateStr \in { ImfFixdate(t), AsctimeDate(t) }
       \/ /\ written = None
          /\ dateStr \in NoDateInputs
    /\ date = NoResult
    /\ shown = <<>>

\* s.parse::<HttpDate>()
ParseHttpDate ==
    /\ pc = "date_given"
    /\ date' = HttpDate_from_str(dateStr)
    /\ pc' = "date_parsed"
    /\ UNCHANGED <<dateStr, written, shown, notDate>>

\* date.to_string(), which is what HeaderValue::from(&date) encodes
ShowHttpDate ==
    /\ pc = "date_parsed"
    /\ date.ok
    /\ shown' = HttpDate_fmt(date.val)
    /\ pc' = "date_shown"
    /\ UNCHANGED <<dateStr, written, date, notDate>>

NextDate ==
    \/ ParseHttpDate
    \/ ShowHttpDate

-----------------------------------------------------------------------------
(* typed_insert scenarios: a header is inserted into a map that may hold   *)
(* values under its name and under another name. The header is given by    *)
(* the extend calls its encode makes: one call with one value for most     *)
(* headers, one call per element for Forwarded, and so none for the        *)
(* Forwarded without elements that decode returns for a value that is not  *)
(* text.                                                                   *)

HeaderNames == { "range", "forwarded" }
StoredValues == { <<"a">>, <<"b">> }
PushedValues == { <<"x">>, <<"y">> }

\* The extend calls of an encode, each over iter::once(value): one call for
\* Range, one call per element for Forwarded.
ExtendsOf(name) ==
    IF name = "range" THEN { << <<v>> >> : v \in PushedValues }
    ELSE UNION { [1..k -> { <<v>> : v \in PushedValues }] : k \in 0..MaxPushed }

GivenIns ==
    /\ pc = "ins_given"
    /\ insName \in HeaderNames
    /\ before \in [HeaderNames -> SeqsUpTo(StoredValues, MaxStored)]
    /\ hmap = before
    /\ pushed \in ExtendsOf(insName)
    /\ tvState = "none"

\* map.typed_insert(header)
TypedInsert ==
    /\ pc = "ins_given"
    /\ LET tv == typed_insert(hmap, insName, pushed) IN
         /\ hmap' = tv.map
         /\ tvState' = tv.state
    /\ pc' = "ins_done"
    /\ UNCHANGED <<insName, before, pushed, notIns>>

NextIns == TypedInsert

-----------------------------------------------------------------------------
(* Forwarded scenarios: a message is decoded, the Forwarded is encoded,    *)
(* and the values pushed are decoded again.                                *)

\* Pairs that decode on their own.
GoodPairInputs ==
    { <<"for", "=", "_", "a">>,
      <<"For", "=", "\"", "_", "a", " ", "\"">>,
      <<"for", "=", "\"", "[", ":", ":", "1", "]", ":", "4", "7", "1", "1", "\"">>,
      <<"by", "=", "10.0.0.1", ":", "8", "0">>,
      <<"proto", "=", "https">>,
      <<"host", "=", "example.com">> }

\* The pairs of the messages: the good ones, a parameter that is not known,
\* an empty pair, and a byte that is not text.
PairInputs == GoodPairInputs \cup { <<"foo", "=", "bar">>, <<>>, <<OBS>> }

RECURSIVE MessagesOf(_)
\* The messages of n pairs: a pair opens a new header value, opens a new
\* element after a comma in the last value, or follows a semicolon in the
\* last element. shape keeps the pairs of every element.
MessagesOf(n) ==
    IF n = 0 THEN { [shape |-> <<>>, wire |-> <<>>] }
    ELSE LET shorter == MessagesOf(n - 1)
             begun == { m \in shorter : m.wire # <<>> }
         IN  { [shape |-> Append(m.shape, <<p>>), wire |-> Append(m.wire, p)] :
                  m \in shorter, p \in PairInputs }
             \cup { [shape |-> Append(m.shape, <<p>>),
                     wire |-> [m.wire EXCEPT ![Len(m.wire)] = @ \o <<",", " ">> \o p]] :
                       m \in begun, p \in PairInputs }
             \cup { [shape |-> [m.shape EXCEPT ![Len(m.shape)] = Append(@, p)],
                     wire |-> [m.wire EXCEPT ![Len(m.wire)] = @ \o <<";">> \o p]] :
                       m \in begun, p \in PairInputs }

GivenFwd ==
    /\ pc = "fwd_given"
    /\ \E n \in 0..MaxFwdPairs : \E m \in MessagesOf(n) :
          /\ fwdShape = m.shape
          /\ fwdWire = m.wire
    /\ fwd = NoResult
    /\ fwdValues = <<>>
    /\ fwdAgain = NoResult

\* Forwarded::decode(&mut wire.iter())
DecodeForwarded ==
    /\ pc = "fwd_given"
    /\ fwd' = Forwarded_decode(fwdWire)
    /\ pc' = "fwd_decoded"
    /\ UNCHANGED <<fwdShape, fwdWire, fwdValues, fwdAgain, notFwd>>

\* forwarded.encode(&mut values)
EncodeForwarded ==
    /\ pc = "fwd_decoded"
    /\ fwd.ok
    /\ fwdValues' = Forwarded_encode(fwd.val)
    /\ pc' = "fwd_encoded"
    /\ UNCHANGED <<fwdShape, fwdWire, fwd, fwdAgain, notFwd>>

\* Forwarded::decode(&mut values.iter()) of the values pushed
DecodeForwardedAgain ==
    /\ pc = "fwd_encoded"
    /\ fwdAgain' = Forwarded_decode(fwdValues)
    /\ pc' = "fwd_again"
    /\ UNCHANGED <<fwdShape, fwdWire, fwd, fwdValues, notFwd>>

NextFwd ==
    \/ DecodeForwarded
    \/ EncodeForwarded
    \/ DecodeForwardedAgain

-----------------------------------------------------------------------------
(* ByteRangeBuilder scenarios: range(bounds) is called on a builder.       *)

BoundInputs ==
    { Included(n) : n \in 0..U64_MAX } \cup { Excluded(n) : n \in 0..U64_MAX }
        \cup { Unbounded }

GivenBld ==
    /\ pc = "builder_given"
    /\ brInner \in { <<>>, <<Last(1)>> }
    /\ brBounds \in BoundInputs \X BoundInputs
    /\ brOut = NoOut

\* builder.range(bounds), in a build with or without overflow checks
BuilderRange ==
    /\ pc = "builder_given"
    /\ \E overflow_checks \in BOOLEAN :
          brOut' = ByteRangeBuilder_range(brInner, brBounds[1], brBounds[2], overflow_checks)
    /\ pc' = "builder_ranged"
    /\ UNCHANGED <<brInner, brBounds, notBld>>

NextBld == BuilderRange

-----------------------------------------------------------------------------
(* QualityValue scenarios: one list item, written with either quality      *)
(* delimiter and none, one or two weights, is converted by                 *)
(* QualityMeta::try_from and yielded by QualityValue::iter.                *)

QvDataInputs == { <<"gzip">>, <<"br">>, <<"*">> }

\* The texts after a delimiter: numbers, one that is not a number, nothing.
QvNumberInputs ==
    { <<"1">>, <<"0", ".", "5">>, <<"0", ".", "8">>, <<"0", ".", "0", "0", "1">>,
      <<"0">>, <<"abc">>, <<>> }

QvDelimiters == { SemiQ_STR, SemiLevel_STR }

QvItemInputs ==
    QvDataInputs
    \cup { d \o s \o n : d \in QvDataInputs, s \in QvDelimiters, n \in QvNumberInputs }
    \cup { d \o s \o n \o t \o m :
               d \in QvDataInputs, s \in QvDelimiters, t \in QvDelimiters,
               n \in QvNumberInputs, m \in QvNumberInputs }

GivenQv ==
    /\ pc = "qv_item"
    /\ qvItem \in QvItemInputs
    /\ qvDelm \in QvDelimiters
    /\ qvMeta = NoResult
    /\ qvYield = NoOut

\* QualityMeta::<Delm>::try_from(item)
QualityMetaTryFrom ==
    /\ pc = "qv_item"
    /\ qvMeta' = QualityMeta_try_from(qvItem, qvDelm)
    /\ pc' = "qv_converted"
    /\ UNCHANGED <<qvItem, qvDelm, qvYield, notQv>>

\* QualityValue::<Delm>::from(value).iter() for the value that is the item.
QualityValueIter ==
    /\ pc = "qv_converted"
    /\ qvYield' = QualityValue_iter(qvItem, qvDelm)
    /\ pc' = "qv_yielded"
    /\ UNCHANGED <<qvItem, qvDelm, qvMeta, notQv>>

NextQv == QualityMetaTryFrom \/ QualityValueIter

-----------------------------------------------------------------------------
(* Numeric directive scenarios: a Cache-Control message that holds one     *)
(* numeric directive, alone or beside no-cache, is decoded.                *)

NumericNames ==
    { "max-age", "max-stale", "min-fresh", "s-maxage",
      "stale-while-revalidate", "stale-if-error" }

\* The texts between the quotes, or after the = sign when there are none.
SecondsTexts ==
    { <<"5">>, <<"1", "2">>, <<"0">>, <<"2", "0", "0">>, <<"lolz">>,
      <<"1", ".", "5">>, <<"-", "1">>, <<" ", "5">>, <<>> }

NumericTexts == SecondsTexts \cup { <<"\"">> \o t \o <<"\"">> : t \in SecondsTexts }

\* The message: the directive alone, after no-cache or before it, in one
\* value or in two.
DirectiveWires(token) ==
    { << token >>,
      << <<"no-cache", ",", " ">> \o token >>,
      << token \o <<",", "no-cache">> >>,
      << <<"no-cache">>, token >> }

GivenKd ==
    /\ pc = "kd_received"
    /\ kdName \in NumericNames
    /\ kdText \in NumericTexts
    /\ kdWire \in DirectiveWires(<<kdName, "=">> \o kdText)
    /\ kdOut = NoResult

\* CacheControl::decode of the values of the message.
DecodeDirective ==
    /\ pc = "kd_received"
    /\ kdOut' = CacheControl_decode(kdWire)
    /\ pc' = "kd_decoded"
    /\ UNCHANGED <<kdName, kdText, kdWire, notKd>>

NextKd == DecodeDirective

-----------------------------------------------------------------------------
(* Builder scenarios: with_* builders are called, one after the other, on  *)
(* CacheControl::new().                                                    *)

\* The flags that have a builder and a getter.
BuilderFlags ==
    { NO_CACHE, NO_STORE, NO_TRANSFORM, ONLY_IF_CACHED, PRIVATE, PUBLIC,
      IMMUTABLE, MUST_REVALIDATE, MUST_UNDERSTAND }

BuilderFields ==
    { "max_age", "max_stale", "min_fresh", "s_max_age",
      "stale_while_revalidate", "stale_if_error" }

\* Durations handed to the builders: whole seconds and one with a
\* sub-second part.
BuilderDurations ==
    { Duration_from_secs(0), Duration_from_secs(7), Duration_from_millis(1500) }

GivenBd ==
    /\ pc = "bd_building"
    /\ built = CacheControl_new
    /\ called = <<>>

\* with_no_cache, with_no_store, with_no_transform, with_only_if_cached,
\* with_private, with_public, with_immutable, with_must_revalidate or
\* with_must_understand.
CallFlagBuilder ==
    /\ pc = "bd_building"
    /\ Len(called) < MaxBuilderCalls
    /\ \E flag \in BuilderFlags :
           /\ built' = CacheControl_with_flag(built, flag)
           /\ called' = Append(called, [flag |-> flag, field |-> "none",
                                        duration |-> Duration_from_secs(0)])
    /\ UNCHANGED <<pc, notBd>>

\* with_max_age, with_max_stale, with_min_fresh, with_s_max_age,
\* with_stale_while_revalidate or with_stale_if_error.
CallDurationBuilder ==
    /\ pc = "bd_building"
    /\ Len(called) < MaxBuilderCalls
    /\ \E field \in BuilderFields, duration \in BuilderDurations :
           /\ built' = CacheControl_with_duration(built, field, duration)
           /\ called' = Append(called, [flag |-> Flags_empty, field |-> field,
                                        duration |-> duration])
    /\ UNCHANGED <<pc, notBd>>

NextBd == CallFlagBuilder \/ CallDurationBuilder

-----------------------------------------------------------------------------
(* Node scenarios: the text of a for or by node, a name with or without a  *)
(* colon and a port after it, is parsed.                                   *)

NodeNameInputs ==
    { <<"10.0.0.1">>,
      <<"[", "10.0.0.1", "]">>,
      <<":", ":", "1">>,
      <<"[", ":", ":", "1", "]">>,
      <<"[", ":", ":", "1">>,
      <<"[", "_", "a", "]">>,
      <<"unknown">>,
      <<"_", "a">>,
      <<"_">>,
      <<"_", "a", ":", "b">>,
      <<"example.com">>,
      <<>> }

NodePortInputs ==
    { <<"8", "0">>, <<"0">>, <<"6", "5", "5", "3", "5">>, <<"6", "5", "5", "3", "6">>,
      <<"_", "p">>, <<"_">>, <<"http">>, <<>> }

NodeInputs ==
    NodeNameInputs \cup { n \o <<":">> \o p : n \in NodeNameInputs, p \in NodePortInputs }

GivenNd ==
    /\ pc = "nd_given"
    /\ ndStr \in NodeInputs
    /\ ndOut = NoResult

\* s.parse::<Node>()
ParseNode ==
    /\ pc = "nd_given"
    /\ ndOut' = Node_from_str(ndStr)
    /\ pc' = "nd_parsed"
    /\ UNCHANGED <<ndStr, notNd>>

NextNd == ParseNode

-----------------------------------------------------------------------------
(* Strict-Transport-Security scenarios: a value of up to MaxStsDirectives  *)
(* directives, separated by semicolons, is decoded.                        *)

StsDirectiveInputs ==
    { <<"max-age", "=", "5">>,
      <<"max-age", "=", "\"", "1", "2", "\"">>,
      <<"Max-Age", " ", "=", " ", "0">>,
      <<"max-age", "=", "izzy">>,
      <<"max-age", "=">>,
      <<"includeSubdomains">>,
      <<"includeSubDomains">>,
      <<"preload">>,
      <<"foo", "=", "bar">>,
      <<>> }

StsSeparators == { <<";">>, <<" ", ";", " ">> }

RECURSIVE StsMessagesOf(_)
\* The values of n directives, with the directives that were written.
StsMessagesOf(n) ==
    IF n = 1 THEN { [shape |-> <<d>>, text |-> d] : d \in StsDirectiveInputs }
    ELSE { [shape |-> Append(m.shape, d), text |-> m.text \o s \o d] :
               m \in StsMessagesOf(n - 1), s \in StsSeparators, d \in StsDirectiveInputs }

GivenSts ==
    /\ pc = "sts_received"
    /\ \/ \E n \in 1..MaxStsDirectives : \E m \in StsMessagesOf(n) :
              /\ stsShape = m.shape
              /\ stsWire \in { <<m.text>>, <<m.text, <<"max-age", "=", "5">> >> }
       \/ /\ stsShape = <<>>
          /\ stsWire \in { <<>>, << <<OBS>> >> }
    /\ stsOut = NoOut

\* StrictTransportSecurity::decode(&mut values)
DecodeSts ==
    /\ pc = "sts_received"
    /\ stsOut' = Returned(StrictTransportSecurity_decode(stsWire))
    /\ pc' = "sts_decoded"
    /\ UNCHANGED <<stsShape, stsWire, notSts>>

NextSts == DecodeSts

-----------------------------------------------------------------------------
(* Range text scenarios: a text is parsed as a Range, the Range is written *)
(* by Display and what was written is parsed again.                        *)

RangeItemInputs ==
    { <<"1", "-", "2">>, <<"0", "-", "0">>, <<"5", "-", "3">>, <<"0", "1", "-", "2">>,
      <<"3", "-">>, <<"-", "5">>, <<"-", "0">>, <<"1", "-", "2", "-", "3">>,
      <<"-">>, <<"abc">>, <<" ", "3", "-", "4">>, <<>> }

RECURSIVE RangeSetsOf(_)
\* The lists of n items.
RangeSetsOf(n) ==
    IF n = 1 THEN RangeItemInputs
    ELSE { l \o <<",">> \o i : l \in RangeSetsOf(n - 1), i \in RangeItemInputs }

RangeSetInputs ==
    UNION { RangeSetsOf(n) : n \in 1..MaxRangeItems } \cup { <<"a", "=", "b">> }

RangeUnitInputs == { <<"bytes">>, <<"Bytes">>, <<"custom">>, <<>> }

RangeTextInputs ==
    { u \o <<"=">> \o l : u \in RangeUnitInputs, l \in RangeSetInputs }
    \cup { <<"abc">>, <<"bytes">>, <<>>, <<"=", "1", "-", "1", "0", "0">>,
           <<"bytes", "=", "1", "-", "1", "0", "0", "=">>,
           <<"bytes", "=", "1", "-", "1", "0", "0">> }

GivenRp ==
    /\ pc = "rp_given"
    /\ rpStr \in RangeTextInputs
    /\ rpOut = NoResult
    /\ rpShown = <<>>
    /\ rpAgain = NoResult

\* s.parse::<Range>()
ParseRange ==
    /\ pc = "rp_given"
    /\ rpOut' = Range_from_str(rpStr)
    /\ pc' = "rp_parsed"
    /\ UNCHANGED <<rpStr, rpShown, rpAgain, notRp>>

\* range.to_string()
ShowRange ==
    /\ pc = "rp_parsed"
    /\ rpOut.ok
    /\ rpShown' = Range_fmt(rpOut.val)
    /\ pc' = "rp_shown"
    /\ UNCHANGED <<rpStr, rpOut, rpAgain, notRp>>

\* range.to_string().parse::<Range>()
ParseShownRange ==
    /\ pc = "rp_shown"
    /\ rpAgain' = Range_from_str(rpShown)
    /\ pc' = "rp_again"
    /\ UNCHANGED <<rpStr, rpOut, rpShown, notRp>>

NextRp == ParseRange \/ ShowRange \/ ParseShownRange

-----------------------------------------------------------------------------
(* Link scenarios: a message of up to MaxLinkLines Link value lines is     *)
(* decoded.                                                                *)

LinkLineInputs ==
    { <<"<", "/a", ">", ";", " ", "rel", "=", "\"", "next", "\"">>,
      <<"<", "/b", ">", ";", " ", "title", "=", "\"", "x", ",", "y", "\"", ",", " ",
        "<", "/c", ">", ";", " ", "Rel", "=", "previous", " ", "up", ";", " ",
        "rel", "=">>,
      <<"<", "/d", ">">>,
      <<"<", "/e", ">", ";", "anchor", "=", "\"", "#s", "\"", ";", "rev", "=", "NEXT",
        ";", "hreflang", "=", "de", ";", "media", "=", "\"", "screen", ",", "tv", "\"",
        ";", "title*", "=", "u", ";", "type", "=", "\"", "text/plain", "\"">>,
      <<>>,
      <<"/a", ";", " ", "rel", "=", "\"", "next", "\"">>,
      <<"<", "/a", ">", ";", " ", "rel", "=">>,
      <<"<", "/a", ">", ";", " ", "attr", "=", "unknown">>,
      <<"rel", "=", "\"", "next", "\"">>,
      <<"<", "/a", ">", ";", " ", "type", "=", "\"", "nonsense", "\"">>,
      <<"<", "/a", ">", ";", " ", "title", "=", "\"", OBS, "\"">> }

RECURSIVE LinkMessagesOf(_)
\* The messages of n lines.
LinkMessagesOf(n) ==
    IF n = 0 THEN { <<>> }
    ELSE { Append(m, l) : m \in LinkMessagesOf(n - 1), l \in LinkLineInputs }

GivenLink ==
    /\ pc = "link_given"
    /\ linkLines \in UNION { LinkMessagesOf(n) : n \in 0..MaxLinkLines }
    /\ linkOut = NoResult

\* Link::decode(&mut values)
DecodeLink ==
    /\ pc = "link_given"
    /\ linkOut' = Link_decode(linkLines)
    /\ pc' = "link_decoded"
    /\ UNCHANGED <<linkLines, notLink>>

NextLink == DecodeLink

-----------------------------------------------------------------------------
(* Time round trip scenarios: a SystemTime is made an HttpDate, directly   *)
(* or inside Expires or IfModifiedSince, and the date a SystemTime again.  *)

\* Whole seconds from UNIX_EPOCH; 86461 is 2 Jan 1970 00:01:01 GMT.
TimeSecondInputs ==
    { -3600, -61, -60, -59, -30, -1, 0, 1, 30, 59, 60, 61, 90, 3600, 86461 }

TimeMilliInputs == { 0, 500 }

TimeInputs ==
    { s * 1000 + (IF s < 0 THEN -ms ELSE ms) :
          s \in TimeSecondInputs, ms \in TimeMilliInputs }

DateTypes == { "HttpDate", "Expires", "IfModifiedSince" }

GivenSt ==
    /\ pc = "st_given"
    /\ stVia \in DateTypes
    /\ stTime \in TimeInputs
    /\ stDate = None
    /\ stBack = None

\* HttpDate::from(t), Expires::from(t), IfModifiedSince::from(t): the two
\* headers hold time.into().
DateFromTime ==
    /\ pc = "st_given"
    /\ stDate' = Some(HttpDate_from_SystemTime(stTime))
    /\ pc' = "st_dated"
    /\ UNCHANGED <<stVia, stTime, stBack, notSt>>

\* SystemTime::from(date): for the two headers date.0.into().
TimeFromDate ==
    /\ pc = "st_dated"
    /\ stBack' = Some(SystemTime_from_HttpDate(stDate[1]))
    /\ pc' = "st_back"
    /\ UNCHANGED <<stVia, stTime, stDate, notSt>>

NextSt == DateFromTime \/ TimeFromDate

-----------------------------------------------------------------------------
(* Specifications: one for the scenarios of each header.                   *)

InitCC ==
    GivenCC /\ IdleAE /\ IdleRange /\ IdleMap /\ IdleCsv /\ IdleDate
        /\ IdleIns /\ IdleFwd /\ IdleBld /\ IdleQv /\ IdleKd /\ IdleBd
        /\ IdleNd /\ IdleSts /\ IdleRp /\ IdleLink /\ IdleSt
SpecCC == InitCC /\ [][NextCC]_vars

InitAE ==
    GivenAE /\ IdleCC /\ IdleRange /\ IdleMap /\ IdleCsv /\ IdleDate
        /\ IdleIns /\ IdleFwd /\ IdleBld /\ IdleQv /\ IdleKd /\ IdleBd
        /\ IdleNd /\ IdleSts /\ IdleRp /\ IdleLink /\ IdleSt
SpecAE == InitAE /\ [][NextAE]_vars

InitRange ==
    GivenRange /\ IdleCC /\ IdleAE /\ IdleMap /\ IdleCsv /\ IdleDate
        /\ IdleIns /\ IdleFwd /\ IdleBld /\ IdleQv /\ IdleKd /\ IdleBd
        /\ IdleNd /\ IdleSts /\ IdleRp /\ IdleLink /\ IdleSt
SpecRange == InitRange /\ [][NextRange]_vars

InitCore ==
    GivenCore /\ IdleCC /\ IdleAE /\ IdleRange /\ IdleCsv /\ IdleDate
        /\ IdleIns /\ IdleFwd /\ IdleBld /\ IdleQv /\ IdleKd /\ IdleBd
        /\ IdleNd /\ IdleSts /\ IdleRp /\ IdleLink /\ IdleSt
SpecCore == InitCore /\ [][NextCore]_vars

InitExt ==
    GivenExt /\ IdleCC /\ IdleAE /\ IdleRange /\ IdleCsv /\ IdleDate
        /\ IdleIns /\ IdleFwd /\ IdleBld /\ IdleQv /\ IdleKd /\ IdleBd
        /\ IdleNd /\ IdleSts /\ IdleRp /\ IdleLink /\ IdleSt
SpecExt == InitExt /\ [][NextExt]_vars

InitCsv ==
    GivenCsv /\ IdleCC /\ IdleAE /\ IdleRange /\ IdleMap /\ IdleDate
        /\ IdleIns /\ IdleFwd /\ IdleBld /\ IdleQv /\ IdleKd /\ IdleBd
        /\ IdleNd /\ IdleSts /\ IdleRp /\ IdleLink /\ IdleSt
SpecCsv == InitCsv /\ [][NextCsv]_vars

InitDate ==
    GivenDate /\ IdleCC /\ IdleAE /\ IdleRange /\ IdleMap /\ IdleCsv
        /\ IdleIns /\ IdleFwd /\ IdleBld /\ IdleQv /\ IdleKd /\ IdleBd
        /\ IdleNd /\ IdleSts /\ IdleRp /\ IdleLink /\ IdleSt
SpecDate == InitDate /\ [][NextDate]_vars

InitIns ==
    GivenIns /\ IdleCC /\ IdleAE /\ IdleRange /\ IdleMap /\ IdleCsv
        /\ IdleDate /\ IdleFwd /\ IdleBld /\ IdleQv /\ IdleKd /\ IdleBd
        /\ IdleNd /\ IdleSts /\ IdleRp /\ IdleLink /\ IdleSt
SpecIns == InitIns /\ [][NextIns]_vars

InitFwd ==
    GivenFwd /\ IdleCC /\ IdleAE /\ IdleRange /\ IdleMap /\ IdleCsv
        /\ IdleDate /\ IdleIns /\ IdleBld /\ IdleQv /\ IdleKd /\ IdleBd
        /\ IdleNd /\ IdleSts /\ IdleRp /\ IdleLink /\ IdleSt
SpecFwd == InitFwd /\ [][NextFwd]_vars

InitBld ==
    GivenBld /\ IdleCC /\ IdleAE /\ IdleRange /\ IdleMap /\ IdleCsv
        /\ IdleDate /\ IdleIns /\ IdleFwd /\ IdleQv /\ IdleKd /\ IdleBd
        /\ IdleNd /\ IdleSts /\ IdleRp /\ IdleLink /\ IdleSt
SpecBld == InitBld /\ [][NextBld]_vars

InitQv ==
    GivenQv /\ IdleCC /\ IdleAE /\ IdleRange /\ IdleMap /\ IdleCsv /\ IdleDate
        /\ IdleIns /\ IdleFwd /\ IdleBld /\ IdleKd /\ IdleBd /\ IdleNd
        /\ IdleSts /\ IdleRp /\ IdleLink /\ IdleSt
SpecQv == InitQv /\ [][NextQv]_vars

InitKd ==
    GivenKd /\ IdleCC /\ IdleAE /\ IdleRange /\ IdleMap /\ IdleCsv /\ IdleDate
        /\ IdleIns /\ IdleFwd /\ IdleBld /\ IdleQv /\ IdleBd /\ IdleNd
        /\ IdleSts /\ IdleRp /\ IdleLink /\ IdleSt
SpecKd == InitKd /\ [][NextKd]_vars

InitBd ==
    GivenBd /\ IdleCC /\ IdleAE /\ IdleRange /\ IdleMap /\ IdleCsv /\ IdleDate
        /\ IdleIns /\ IdleFwd /\ IdleBld /\ IdleQv /\ IdleKd /\ IdleNd
        /\ IdleSts /\ IdleRp /\ IdleLink /\ IdleSt
SpecBd == InitBd /\ [][NextBd]_vars

InitNd ==
    GivenNd /\ IdleCC /\ IdleAE /\ IdleRange /\ IdleMap /\ IdleCsv /\ IdleDate
        /\ IdleIns /\ IdleFwd /\ IdleBld /\ IdleQv /\ IdleKd /\ IdleBd
        /\ IdleSts /\ IdleRp /\ IdleLink /\ IdleSt
SpecNd == InitNd /\ [][NextNd]_vars

InitSts ==
    GivenSts /\ IdleCC /\ IdleAE /\ IdleRange /\ IdleMap /\ IdleCsv
        /\ IdleDate /\ IdleIns /\ IdleFwd /\ IdleBld /\ IdleQv /\ IdleKd
        /\ IdleBd /\ IdleNd /\ IdleRp /\ IdleLink /\ IdleSt
SpecSts == InitSts /\ [][NextSts]_vars

InitRp ==
    GivenRp /\ IdleCC /\ IdleAE /\ IdleRange /\ IdleMap /\ IdleCsv /\ IdleDate
        /\ IdleIns /\ IdleFwd /\ IdleBld /\ IdleQv /\ IdleKd /\ IdleBd
        /\ IdleNd /\ IdleSts /\ IdleLink /\ IdleSt
SpecRp == InitRp /\ [][NextRp]_vars

InitLink ==
    GivenLink /\ IdleCC /\ IdleAE /\ IdleRange /\ IdleMap /\ IdleCsv
        /\ IdleDate /\ IdleIns /\ IdleFwd /\ IdleBld /\ IdleQv /\ IdleKd
        /\ IdleBd /\ IdleNd /\ IdleSts /\ IdleRp /\ IdleSt
SpecLink == InitLink /\ [][NextLink]_vars

InitSt ==
    GivenSt /\ IdleCC /\ IdleAE /\ IdleRange /\ IdleMap /\ IdleCsv /\ IdleDate
        /\ IdleIns /\ IdleFwd /\ IdleBld /\ IdleQv /\ IdleKd /\ IdleBd
        /\ IdleNd /\ IdleSts /\ IdleRp /\ IdleLink
SpecSt == InitSt /\ [][NextSt]_vars

-----------------------------------------------------------------------------
(* Cache-Control: properties                                               *)

\* C1: Cache-Control round-trips: decoding the values that encode(x) pushed
\* yields a CacheControl equal to x, for every x built by with_* calls or
\* returned by decode.
C1_RoundTrip == pc = "roundtrip" => decoded = Ok(cc)

RECURSIVE FoldValues(_)
\* v1 + ", " + ... + ", " + vn
FoldValues(values) ==
    IF Len(values) = 1 THEN Head(values)
    ELSE Head(values) \o <<",", " ">> \o FoldValues(Tail(values))

\* C2: Cache-Control decode is invariant under comma-folding: decoding
\* [v1, ..., vn] gives the same outcome as decoding the single value
\* v1 + ", " + ... + ", " + vn.
C2_FoldInvariant ==
    (pc = "parsed" /\ wire # <<>>)
        => decoded = CacheControl_decode(<<FoldValues(wire)>>)

KnownFlagNames ==
    { "no-cache", "no-store", "no-transform", "only-if-cached",
      "must-revalidate", "public", "private", "immutable",
      "must-understand", "proxy-revalidate" }

KnownNumericNames ==
    { "max-age", "max-stale", "min-fresh", "s-maxage",
      "stale-while-revalidate", "stale-if-error" }

\* A token that is a known flag, or a known numeric directive name = value.
IsRecognized(token) ==
    \/ Len(token) = 1 /\ token[1] \in KnownFlagNames
    \/ Len(token) >= 2 /\ token[1] \in KnownNumericNames /\ token[2] = "="

\* The list tokens of the message, in order.
WireTokens(values) == AllPieces(StrValues(values), ",")

\* The message with its unrecognized tokens removed: every recognized token,
\* in order, as a header value of its own.
RecognizedOnly(values) == SelectSeq(WireTokens(values), IsRecognized)

\* C3: Cache-Control decode never fails because of an unrecognized
\* directive: every token that is neither a known flag nor a known numeric
\* directive is dropped, and the result equals the result of decoding the
\* same input with those tokens removed.
C3_UnknownDropped ==
    pc = "parsed" => decoded = CacheControl_decode(RecognizedOnly(wire))

\* C3 witness: "foo, no-cache, bar=baz" has been decoded to no-cache alone.
C3_Witness ==
    /\ pc = "parsed"
    /\ wire = << <<"foo", ",", " ", "no-cache", ",", " ", "bar", "=", "baz">> >>
    /\ decoded = Ok([CacheControl_new EXCEPT !.flags = NO_CACHE])

-----------------------------------------------------------------------------
(* Accept-Encoding: properties                                             *)

\* The list items of the message, in order: the comma-separated pieces of
\* every value, trimmed.
ListItems(values) ==
    Concat([v \in 1..Len(values) |->
              LET pieces == Split(values[v], ",")
              IN  [i \in 1..Len(pieces) |-> Trim(pieces[i])]])

\* An item is data, or data;q=weight.
HasWeight(item) == Find(item, ";") # 0
IsNumber(item) == ~HasWeight(item) \/ ParseDecimal(SubSeq(item, Find(item, ";") + 3, Len(item))).ok
ItemData(item) == IF HasWeight(item) THEN SubSeq(item, 1, Find(item, ";") - 1) ELSE item

\* The weight of an item as the fraction it is written as; 1 without a suffix.
ItemWeight(item) ==
    IF HasWeight(item)
    THEN ParseDecimal(SubSeq(item, Find(item, ";") + 3, Len(item))).val
    ELSE [neg |-> FALSE, num |-> 1, den |-> 1]

Heavier(a, b) == ItemWeight(a).num * ItemWeight(b).den > ItemWeight(b).num * ItemWeight(a).den

\* The place of item i in descending weight, equal weights in their order.
Rank(items, i) ==
    1 + Cardinality({ j \in 1..Len(items) :
                        \/ Heavier(items[j], items[i])
                        \/ ~Heavier(items[i], items[j]) /\ j < i })

DescendingStable(items) ==
    [r \in 1..Len(items) |->
        ItemData(items[CHOOSE i \in 1..Len(items) : Rank(items, i) = r])]

\* C4: iterating a QualityValue (sorted_values) yields the list items in
\* descending weight, an item without a weight suffix having weight 1.0, and
\* items of equal weight keep their original relative order.
C4_DescendingWeight ==
    (pc = "ae_sorted_values" /\ \A i \in 1..Len(ListItems(aeWire)) : IsNumber(ListItems(aeWire)[i]))
        => aeOut = Returned(DescendingStable(ListItems(aeWire)))

\* C5: malformed input never causes a panic on the Accept-Encoding path:
\* decode followed by sorted_values, sorted_encodings or prefered_encoding
\* returns normally for every sequence of values.
C5_NoPanic ==
    pc \in { "ae_sorted_values", "ae_sorted_encodings", "ae_prefered_encoding" }
        => ~aeOut.panic

-----------------------------------------------------------------------------
(* Range: properties                                                       *)

\* C9: to_satisfiable_range_bounds(len) returns an error exactly when
\* len = 0, or the spec is FromTo(first, last) with first >= len or
\* first > last, or the spec is AllFrom(first) with first >= len; a Last(n)
\* spec is unsatisfiable only when len = 0.
C9_ErrorExactly ==
    pc = "range_bounds" =>
        (~rout.ok <=>
            \/ rlen = 0
            \/ rspec.kind = "FromTo" /\ (rspec.first >= rlen \/ rspec.first > rspec.last)
            \/ rspec.kind = "AllFrom" /\ rspec.first >= rlen)

\* C9 witness: FromTo(3, 3) against length 3 is an error (first >= len).
C9_Witness ==
    /\ pc = "range_bounds"
    /\ rspec = FromTo(3, 3) /\ rlen = 3 /\ ~rout.ok

\* The inclusive position a Bound<u64> stands for as the end of a range.
EndPosition(b) == IF b.bound = "Included" THEN b.n ELSE b.n - 1

\* C10: whenever to_satisfiable_range_bounds(len) succeeds, the bounds
\* denote a non-empty range inside the resource, 0 <= from <= to < len as
\* inclusive positions: FromTo(first, last) gives [first, min(last, len-1)],
\* AllFrom(first) gives first up to len exclusive, and Last(n) gives
\* len - min(n, len) up to len exclusive.
C10_BoundsInside ==
    (pc = "range_bounds" /\ rout.ok) =>
        LET from == rout.val[1]
            to == rout.val[2]
        IN  /\ from.bound = "Included"
            /\ 0 <= from.n /\ from.n <= EndPosition(to) /\ EndPosition(to) < rlen
            /\ rspec.kind = "FromTo" =>
                   /\ from.n = rspec.first
                   /\ to = Included(IF rspec.last < rlen - 1 THEN rspec.last ELSE rlen - 1)
            /\ rspec.kind = "AllFrom" => from.n = rspec.first /\ to = Excluded(rlen)
            /\ rspec.kind = "Last" =>
                   /\ from.n = rlen - (IF rspec.first < rlen THEN rspec.first ELSE rlen)
                   /\ to = Excluded(rlen)

\* C10 witness: Last(5) against length 3 gives [0, 3), the whole resource.
C10_Witness ==
    /\ pc = "range_bounds"
    /\ rspec = Last(5) /\ rlen = 3
    /\ rout = Ok(<<Included(0), Excluded(3)>>)

-----------------------------------------------------------------------------
(* Referrer-Policy and typed_get: properties                               *)

\* The comma-separated trimmed tokens of all values, in receipt order (a
\* value that is not text has none).
AllTokens(values) ==
    Concat([v \in 1..Len(values) |-> value_tokens_forward(values[v])])

\* The policy named by the last token that names one, None when none does.
LastKnown(tokens) == FirstKnown(Reverse(tokens))

\* C6: ReferrerPolicy decode returns the policy named by the last known
\* policy token in the concatenation, in receipt order, of the
\* comma-separated trimmed tokens of all values; unknown tokens are skipped
\* wherever they are, and decode fails exactly when no token is known.
C6_LastKnown ==
    pc = "core_decoded" => got = LastKnown(AllTokens(held))

\* C6 witness: ["origin, never", "nope"] decodes to the policy of "never",
\* the last known token.
C6_Witness ==
    /\ pc = "core_decoded"
    /\ held = << <<"origin", ",", " ", "never">>, <<"nope">> >>
    /\ got = Some("NoReferrer")

\* C7: typed_get returns None whenever decode succeeded but left a value of
\* the name unconsumed (Expect: only the single value "100-continue" gives a
\* header), unless decode called skip_exhaustive_iter_check, as
\* ReferrerPolicy does: then the decoded header is returned whatever values
\* remain.
C7_Exhaustive ==
    pc = "core_typed_get" =>
        /\ hname = "expect" =>
               got = IF held = << <<"100-continue">> >> THEN Some("CONTINUE") ELSE None
        /\ hname = "referrer-policy" => got = LastKnown(AllTokens(held))

\* C7 witness: two "100-continue" values under Expect, and typed_get gave
\* None.
C7_Witness ==
    /\ pc = "core_typed_get" /\ hname = "expect"
    /\ held = << <<"100-continue">>, <<"100-continue">> >>
    /\ got = None

-----------------------------------------------------------------------------
(* Single-value headers: properties                                        *)

\* C8: a header that requires exactly one value (Range, Host, Location,
\* Access-Control-Request-Method) is never obtained from zero or from two or
\* more values: decode of no values is an error, and typed_try_get and
\* typed_get on a map with two or more values under the name return no
\* header.
C8_ExactlyOneValue ==
    /\ (pc = "ext_decoded" /\ held = <<>>) => ~got.ok
    /\ (pc = "ext_typed_try_get" /\ Len(held) >= 2) => ~(got.ok /\ got.val # None)
    /\ (pc = "ext_typed_get" /\ Len(held) >= 2) => got = None

-----------------------------------------------------------------------------
(* FlatCsv: properties                                                     *)

\* The separators of a value that stand outside quoted strings: those with
\* an even number of double quotes before them.
UnquotedSeps(value, sep) ==
    { i \in 1..Len(value) :
        /\ value[i] = sep
        /\ Cardinality({ j \in 1..(i - 1) : value[j] = "\"" }) % 2 = 0 }

\* C11: FlatCsv iteration is quote-aware: a text value is split only at the
\* separators outside double-quoted spans, so it has one item more than it
\* has such separators.
C11_QuoteAware ==
    (pc = "csv_iterated" /\ to_str(flat[1]).ok)
        => Len(fcTokens) = Cardinality(UnquotedSeps(flat[1], fcSep)) + 1

RECURSIVE JoinValues(_, _)
\* The single value v1 + sep + " " + ... + sep + " " + vn.
JoinValues(values, sep) ==
    IF values = <<>> THEN <<>>
    ELSE IF Len(values) = 1 THEN Head(values)
    ELSE Head(values) \o <<sep, " ">> \o JoinValues(Tail(values), sep)

\* C12: FlatCsv folding is transparent to iteration: the FlatCsv collected
\* from the values iterates the same items as the FlatCsv of the single
\* value joining them with the separator and a space, and a single wire
\* value is stored unchanged.
C12_FoldTransparent ==
    /\ pc = "csv_iterated"
          => fcTokens = FlatCsv_iter(JoinValues(fcValues, fcSep), fcSep)
    /\ (pc \in { "csv_built", "csv_iterated" } /\ Len(fcValues) = 1)
          => flat = Some(fcValues[1])

C12_Witness ==
    /\ pc = "csv_iterated"
    /\ fcSep = ";"
    /\ fcValues = << <<"a">>, <<"b", ",", " ", "a">> >>
    /\ flat = Some(<<"a", ";", " ", "b", ",", " ", "a">>)
    /\ fcTokens = << <<"a">>, <<"b", ",", " ", "a">> >>

-----------------------------------------------------------------------------
(* HTTP dates: properties                                                  *)

\* C13: HTTP dates are canonicalized: each of the three forms of an instant
\* parses to the HttpDate of that instant, writing the parsed date gives the
\* IMF-fixdate form of the instant, and a text in none of the forms fails
\* to parse.
C13_Canonical ==
    /\ (pc \in { "date_parsed", "date_shown" } /\ written # None)
          => date = Ok(written[1])
    /\ (pc = "date_shown" /\ written # None) => shown = ImfFixdate(written[1])
    /\ (pc = "date_parsed" /\ written = None) => ~date.ok

\* The part of C13 that is about parsing alone, for the instants from 1969
\* on.
ParsesCanonically ==
    /\ (pc \in { "date_parsed", "date_shown" } /\ written \in
            { Some(t) : t \in InstantInputs })
          => date = Ok(written[1])
    /\ (pc = "date_parsed" /\ written = None) => ~date.ok

-----------------------------------------------------------------------------
(* util/csv.rs: properties                                                 *)

RECURSIVE CutAt(_, _)
\* The pieces of a text between the positions in cuts.
CutAt(text, cuts) ==
    IF cuts = {} THEN <<text>>
    ELSE LET c == CHOOSE x \in cuts : \A y \in cuts : x <= y IN
         <<SubSeq(text, 1, c - 1)>>
             \o CutAt(SubSeq(text, c + 1, Len(text)), { x - c : x \in cuts \ { c } })

RECURSIVE ExpectedPieces(_, _)
\* Every value cut at its delimiters outside quotes, the quote state starting
\* afresh in every value; the pieces trimmed, the empty ones dropped.
ExpectedPieces(values, delimiter) ==
    IF values = <<>> THEN <<>>
    ELSE LET cut == CutAt(Head(values), UnquotedSeps(Head(values), delimiter))
             trimmed == [i \in 1..Len(cut) |-> Trim(cut[i])]
         IN  SelectSeq(trimmed, LAMBDA x : x # <<>>)
                 \o ExpectedPieces(Tail(values), delimiter)

\* What from_delimited is to give for the pieces: their parsed values in
\* order, or the error when one of them does not parse.
ExpectedParse(pieces) ==
    IF \E i \in 1..Len(pieces) : ~KnownDirective_from_str(pieces[i]).ok
    THEN Err
    ELSE Ok([i \in 1..Len(pieces) |-> KnownDirective_from_str(pieces[i]).val])

\* C14: from_delimited (and from_comma_delimited with ",") splits every value
\* only at the delimiters outside double quotes, trims the pieces, drops the
\* empty ones, parses the others in order, and fails as a whole when one
\* piece fails to parse.
C14_SplitOutsideQuotes ==
    /\ pc = "csv_from_delimited"
          => csvOut = ExpectedParse(ExpectedPieces(fcValues, fcSep))
    /\ (pc = "csv_from_comma_delimited" /\ \A i \in 1..Len(fcValues) : to_str(fcValues[i]).ok)
          => csvOut = ExpectedParse(ExpectedPieces(fcValues, ","))

C14_Witness ==
    /\ pc = "csv_from_delimited"
    /\ fcSep = ","
    /\ fcValues = << <<"\"", "x", ",", "y", "\"", ",", " ", "a">>, <<"b">> >>
    /\ csvOut.ok
    /\ Len(csvOut.val) = 3

\* C15: from_comma_delimited does not silently ignore a value that is not
\* text: the decode of values one of which is not text is an error.
C15_NonTextIsError ==
    (pc = "csv_from_comma_delimited" /\ \E i \in 1..Len(fcValues) : ~to_str(fcValues[i]).ok)
        => ~csvOut.ok

-----------------------------------------------------------------------------
(* typed_insert: properties                                                *)

\* C16: typed_insert replaces rather than appends: after it returns, the
\* values under the header's name are exactly the values its encode pushed,
\* in push order, the values under every other name are as they were, and
\* the State::Tmp placeholder was never met (nor is it left behind).
C16_InsertReplaces ==
    pc = "ins_done" =>
        /\ hmap[insName] = Concat(pushed)
        /\ \A n \in HeaderNames \ { insName } : hmap[n] = before[n]
        /\ tvState \notin { "Tmp", "unreachable" }

-----------------------------------------------------------------------------
(* typed_try_get and typed_get: properties                                 *)

\* What C17 says of a call on a map holding `values` under the name of H.
ExpectedTryGet(H, values) ==
    IF values = <<>> THEN Ok(None)
    ELSE IF Decodable_decode(H, values).ok
    THEN Ok(Some(Decodable_decode(H, values).val))
    ELSE Err

\* C17: typed_try_get returns Ok(None) exactly when the map holds no value
\* under the name, Err when a value is there and decode fails, Ok(Some(h))
\* when decode succeeds; typed_get returns Some(h) in the last case and None
\* in the other two; and no call changes what the map holds.
C17_TryGetOutcomes ==
    /\ [](/\ pc = "ext_typed_try_get" => got = ExpectedTryGet(hname, held)
          /\ pc = "ext_typed_try_get" => (got = Ok(None) <=> held = <<>>)
          /\ pc = "ext_typed_get" =>
                got = (IF ExpectedTryGet(hname, held).ok
                       THEN ExpectedTryGet(hname, held).val ELSE None))
    /\ [][held' = held /\ hname' = hname]_vars

C17_Witness ==
    /\ pc = "ext_typed_try_get"
    /\ hname = "range"
    /\ held = << <<OBS>> >>
    /\ got = Err

-----------------------------------------------------------------------------
(* Forwarded: properties                                                   *)

\* The parameter a pair is written for: its name before "=", in lower case.
WrittenFor(pair) ==
    IF pair = <<>> THEN "none"
    ELSE CASE Head(pair) \in { "for", "For" } -> "for"
           [] Head(pair) = "by" -> "by"
           [] Head(pair) = "proto" -> "proto"
           [] Head(pair) = "host" -> "host"
           [] OTHER -> "none"

\* An element in which some parameter is written twice.
WrittenTwice(pairs) ==
    \E i, j \in 1..Len(pairs) :
        i < j /\ WrittenFor(pairs[i]) = WrittenFor(pairs[j]) /\ WrittenFor(pairs[i]) # "none"

\* C18: in Forwarded decode, a parameter (for, by, proto, host, in any case)
\* written twice in one element of a message of text values makes decode
\* fail; a message of good pairs in which no element has a parameter twice
\* decodes, however often the parameter is written in different elements,
\* to one element per element written, each with the parameters written in
\* it.
C18_DuplicatePerElement ==
    (pc = "fwd_decoded" /\ \A i \in 1..Len(fwdWire) : to_str(fwdWire[i]).ok) =>
        /\ (\E e \in 1..Len(fwdShape) : WrittenTwice(fwdShape[e])) => ~fwd.ok
        /\ ( /\ fwdShape # <<>>
             /\ \A e \in 1..Len(fwdShape) :
                   /\ ~WrittenTwice(fwdShape[e])
                   /\ \A i \in 1..Len(fwdShape[e]) : fwdShape[e][i] \in GoodPairInputs )
           => /\ fwd.ok
              /\ Len(fwd.val) = Len(fwdShape)
              /\ \A e \in 1..Len(fwdShape) :
                    \A k \in { "for", "by", "proto", "host" } :
                        fwd.val[e][k] # None
                            <=> \E i \in 1..Len(fwdShape[e]) : WrittenFor(fwdShape[e][i]) = k

C18_Witness ==
    /\ pc = "fwd_decoded"
    /\ fwdWire = << <<"for", "=", "_", "a", ";", "proto", "=", "https",
                     ",", " ", "for", "=", "_", "a">> >>
    /\ fwd.ok
    /\ Len(fwd.val) = 2
    /\ fwd.val[1].for = fwd.val[2].for

\* C19: Forwarded round-trips: for the Forwarded of every successful decode,
\* encode pushes one value per element, in order, with the parameters the
\* element has as for, by, proto, host joined by ";", and decoding the
\* pushed values gives a Forwarded equal to the one encoded.
C19_RoundTrip ==
    /\ pc \in { "fwd_encoded", "fwd_again" } =>
          /\ Len(fwdValues) = Len(fwd.val)
          /\ \A e \in 1..Len(fwd.val) :
                LET listed == SplitStr(fwdValues[e], <<";">>)
                    present == SelectSeq(<<"for", "by", "proto", "host">>,
                                         LAMBDA k : fwd.val[e][k] # None)
                IN  /\ Len(listed) = Len(present)
                    /\ \A i \in 1..Len(present) : Head(listed[i]) = present[i]
    /\ pc = "fwd_again" => fwdAgain = Ok(fwd.val)

-----------------------------------------------------------------------------
(* ByteRangeBuilder: properties                                            *)

\* The inclusive equivalents of a start and of an end bound, as integers;
\* an unbounded end has none.
InclusiveFirst(start) ==
    CASE start.bound = "Included" -> start.n
      [] start.bound = "Excluded" -> start.n + 1
      [] start.bound = "Unbounded" -> 0

InclusiveLast(end) ==
    CASE end.bound = "Included" -> Some(end.n)
      [] end.bound = "Excluded" -> Some(end.n - 1)
      [] end.bound = "Unbounded" -> None

\* C20: ByteRangeBuilder::range returns an error for bounds whose end lies
\* before their start, and otherwise appends FromTo(first, last), or
\* AllFrom(first) for an unbounded end, first and last being the inclusive
\* equivalents of the bounds; for all bounds, an exclusive end of 0 and an
\* exclusive start of u64::MAX among them, without overflow or wrap-around.
C20_BuilderRange ==
    pc = "builder_ranged" =>
        LET first == InclusiveFirst(brBounds[1])
            last == InclusiveLast(brBounds[2])
        IN  /\ ~brOut.panic
            /\ brOut.val =
                 (IF first > U64_MAX \/ (last # None /\ last[1] < first) THEN Err
                  ELSE IF last = None THEN Ok(Append(brInner, AllFrom(first)))
                  ELSE Ok(Append(brInner, FromTo(first, last[1]))))

\* The part of C20 on the bounds for which no arithmetic leaves u64.
BuilderRangeInside ==
    (/\ pc = "builder_ranged"
     /\ brBounds[1] # Excluded(U64_MAX)
     /\ brBounds[2] # Excluded(0))
        => C20_BuilderRange

-----------------------------------------------------------------------------
(* Cache-Control: the encoded value                                        *)

\* The directive names in the order in which an encoded value lists them.
CanonicalOrder ==
    << "no-cache", "no-store", "no-transform", "only-if-cached",
       "must-revalidate", "public", "private", "immutable",
       "must-understand", "proxy-revalidate",
       "max-age", "max-stale", "min-fresh", "s-maxage" >>

\* The items of an encoded value: the texts between the ", " separators.
ListedDirectives(value) ==
    IF value = <<>> THEN <<>> ELSE SplitStr(value, <<",", " ">>)

\* The place of a listed directive in the canonical order, 0 for a text
\* that names no directive of it.
OrderOf(item) ==
    IF item = <<>> THEN 0 ELSE IndexOf(CanonicalOrder, item[1])

\* The listed directive says what the getters of c say: a flag that the
\* getter reports, or a duration that the getter returns.
SaysGetter(c, item) ==
    LET secs(o) == o # None /\ item = <<item[1], "=">> \o FormatU64(o[1].secs)
        flag(f) == item = <<item[1]>> /\ Flags_contains(c.flags, f)
    IN  CASE item = <<>> -> FALSE
          [] item[1] = "no-cache" -> flag(NO_CACHE)
          [] item[1] = "no-store" -> flag(NO_STORE)
          [] item[1] = "no-transform" -> flag(NO_TRANSFORM)
          [] item[1] = "only-if-cached" -> flag(ONLY_IF_CACHED)
          [] item[1] = "must-revalidate" -> flag(MUST_REVALIDATE)
          [] item[1] = "public" -> flag(PUBLIC)
          [] item[1] = "private" -> flag(PRIVATE)
          [] item[1] = "immutable" -> flag(IMMUTABLE)
          [] item[1] = "must-understand" -> flag(MUST_UNDERSTAND)
          [] item[1] = "proxy-revalidate" -> flag(PROXY_REVALIDATE)
          [] item[1] = "max-age" -> secs(c.max_age)
          [] item[1] = "max-stale" -> secs(c.max_stale)
          [] item[1] = "min-fresh" -> secs(c.min_fresh)
          [] item[1] = "s-maxage" -> secs(c.s_max_age)
          [] item[1] = "stale-while-revalidate" -> secs(c.stale_while_revalidate)
          [] item[1] = "stale-if-error" -> secs(c.stale_if_error)
          [] OTHER -> FALSE

\* C21: encode pushes a single value; every directive the value lists, the
\* items being separated by ", ", is a directive that is set in the
\* CacheControl, and the items follow the canonical order strictly, so none
\* is listed twice and the order is the same whatever the order of the
\* with_* calls or of the tokens of the decoded input was (no-cache before
\* private, the flags before max-age).
C21_CanonicalEncode ==
    pc \in { "encoded", "roundtrip" } =>
        /\ Len(wire) = 1
        /\ LET items == ListedDirectives(wire[1]) IN
           /\ \A i \in 1..Len(items) : SaysGetter(cc, items[i])
           /\ \A i \in 1..Len(items) : OrderOf(items[i]) # 0
           /\ \A i, j \in 1..Len(items) :
                  i < j => OrderOf(items[i]) < OrderOf(items[j])

\* An encoded value that lists a flag and a duration: no-cache, max-age=7.
C21_Witness ==
    /\ pc = "encoded"
    /\ Flags_contains(cc.flags, NO_CACHE)
    /\ cc.max_age = Some(Seconds_from(Duration_from_secs(7)))
    /\ wire = << <<"no-cache", ",", " ", "max-age", "=", "7">> >>

-----------------------------------------------------------------------------
(* QualityValue: properties                                                *)

\* The position where the rightmost occurrence of pat in s starts, 0 when pat
\* does not occur in s.
RightmostOccurrence(s, pat) ==
    LET at == { i \in 1..(Len(s) - Len(pat) + 1) :
                    SubSeq(s, i, i + Len(pat) - 1) = pat }
    IN  IF at = {} THEN 0 ELSE CHOOSE i \in at : \A j \in at : j <= i

\* A decimal number times 1000, truncated to an integer.
ThousandthsOf(number) ==
    LET d == ParseDecimal(number).val IN (d.num * 1000) \div d.den

\* C22: an item that contains the quality delimiter is split at the
\* rightmost occurrence of the delimiter: the token is all the text before
\* that occurrence, also when the delimiter occurs more than once, and the
\* weight is the number after it times 1000, truncated; an item without the
\* delimiter is yielded whole with weight 1000.
C22_RightmostSplit ==
    pc \in { "qv_converted", "qv_yielded" } =>
        LET k == RightmostOccurrence(qvItem, qvDelm)
            number == SubSeq(qvItem, k + Len(qvDelm), Len(qvItem))
        IN  /\ k = 0 => qvMeta = Ok([data |-> qvItem, quality |-> 1000])
            /\ k # 0 /\ ParseDecimal(number).ok =>
                   qvMeta = Ok([data |-> SubSeq(qvItem, 1, k - 1),
                                quality |-> ThousandthsOf(number)])
            /\ pc = "qv_yielded" /\ qvMeta.ok =>
                   qvYield = Returned(<<IF k = 0 THEN qvItem
                                        ELSE SubSeq(qvItem, 1, k - 1)>>)

\* The cases in which the item holds the delimiter at most once.
SplitsAtOnlyDelimiter ==
    pc \in { "qv_converted", "qv_yielded" }
    /\ Len(SplitStr(qvItem, qvDelm)) <= 2
        => C22_RightmostSplit

-----------------------------------------------------------------------------
(* Cache-Control: the value of a numeric directive                         *)

\* The text with its surrounding double quotes stripped.
Unquoted(text) ==
    IF Len(text) >= 2 /\ Head(text) = "\"" /\ text[Len(text)] = "\""
    THEN SubSeq(text, 2, Len(text) - 1)
    ELSE text

\* An unsigned decimal integer: one or more digits.
IsUnsignedDecimal(text) ==
    text # <<>> /\ \A i \in 1..Len(text) : IsDigit(text[i])

\* The field of CacheControl a numeric directive is stored in.
FieldOf(name) ==
    CASE name = "max-age" -> "max_age"
      [] name = "max-stale" -> "max_stale"
      [] name = "min-fresh" -> "min_fresh"
      [] name = "s-maxage" -> "s_max_age"
      [] name = "stale-while-revalidate" -> "stale_while_revalidate"
      [] name = "stale-if-error" -> "stale_if_error"

\* C23: decode fails when a known numeric directive carries a value that,
\* with its surrounding double quotes stripped, is not an unsigned decimal
\* integer; a well-formed value, quoted or not, is stored as that many
\* seconds.
C23_MalformedNumeric ==
    pc = "kd_decoded" =>
        LET text == Unquoted(kdText) IN
        IF IsUnsignedDecimal(text)
        THEN /\ kdOut.ok
             /\ kdOut.val[FieldOf(kdName)] =
                    Some(Seconds_from(Duration_from_secs(DigitsValue(text, 0))))
        ELSE ~kdOut.ok

\* The same for every value but the empty one.
FailsOnOtherMalformed ==
    pc = "kd_decoded" /\ kdText # <<>> => C23_MalformedNumeric

-----------------------------------------------------------------------------
(* Cache-Control: builders and getters                                     *)

\* The duration of the most recent call of the builder of the field, None
\* when it was never called.
MostRecent(calls_made, field) ==
    LET at == { i \in 1..Len(calls_made) : calls_made[i].field = field }
    IN  IF at = {} THEN None
        ELSE Some(calls_made[CHOOSE i \in at : \A j \in at : j <= i].duration)

AllFlags == BuilderFlags \cup { PROXY_REVALIDATE }

\* C24: after any sequence of with_* calls on CacheControl::new(), each
\* boolean getter returns true iff its flag builder was called at least
\* once, and each duration getter returns the value of the most recent call
\* of its builder (None if it was never called), so no builder call changes
\* the result of another getter; the flag bit constants are pairwise
\* disjoint.
C24_BuildersFrame ==
    pc = "bd_building" =>
        /\ \A flag \in BuilderFlags :
               CacheControl_flag(built, flag)
                   <=> \E i \in 1..Len(called) : called[i].flag = flag
        /\ \A field \in BuilderFields :
               CacheControl_duration(built, field) = MostRecent(called, field)
        /\ \A f, g \in AllFlags : f # g => BitAnd(f, g) = 0

\* The same for the calls that hand over whole seconds.
WholeSecondsFrame ==
    (\A i \in 1..Len(called) : called[i].duration.nanos = 0) => C24_BuildersFrame

-----------------------------------------------------------------------------
(* HTTP date: the year                                                     *)

\* C25: the windowing of the year applies exactly to years of two digits:
\* an RFC 850 date with the year yy decodes to 2000 + yy when yy <= 68 and to
\* 1900 + yy when yy >= 69, and an IMF-fixdate or asctime date, whose year
\* is written with four digits, decodes to exactly the written year.
C25_YearWindow ==
    (pc \in { "date_parsed", "date_shown" } /\ written # None) =>
        LET t == written[1]
            yy == t.year % 100
        IN  /\ date.ok
            /\ date.val.year =
                   IF dateStr = Rfc850Date(t)
                   THEN (IF yy <= 68 THEN 2000 + yy ELSE 1900 + yy)
                   ELSE t.year

\* The same for the years from 100 on.
WindowFromYear100 ==
    (written # None /\ written[1].year >= 100) => C25_YearWindow

-----------------------------------------------------------------------------
(* Forwarded: the grammar of a node                                        *)

\* A node name of the grammar: an IPv4 literal, an IPv6 literal in brackets,
\* the token unknown, or a text that starts with "_".
IsNodeName(name) ==
    \/ name \in V4Addrs
    \/ \E a \in V6Addrs : name = <<"[">> \o a \o <<"]">>
    \/ name = <<"unknown">>
    \/ name # <<>> /\ Head(name) = "_"

\* A port of the grammar: a u16 number, or a text that starts with "_".
IsNodePort(port) ==
    \/ IsUnsignedDecimal(port) /\ DigitsValue(port, 0) <= U16_MAX
    \/ port # <<>> /\ Head(port) = "_"

\* The last colon of the text, when it lies after the closing bracket of an
\* IPv6 literal (or the text has no such bracket), else 0.
PortColon(s) ==
    LET k == RightmostOccurrence(s, <<":">>)
    IN  IF k # 0 /\ k > Find(s, "]") THEN k ELSE 0

\* C26: a node is accepted exactly when its name is an IPv4 literal, an
\* IPv6 literal in brackets, unknown or a text starting with "_", which may
\* be followed by ":" and a port that is a u16 number or a text starting
\* with "_"; the port is what follows the last colon only when that colon
\* lies after the closing bracket, so a colon inside the brackets is never
\* the port separator; every other text is an error.
C26_NodeGrammar ==
    pc = "nd_parsed" =>
        LET k == PortColon(ndStr)
            whole == IsNodeName(ndStr)
            split == /\ IsNodeName(SubSeq(ndStr, 1, k - 1))
                     /\ IsNodePort(SubSeq(ndStr, k + 1, Len(ndStr)))
        IN  /\ ndOut.ok <=> (IF k # 0 THEN split ELSE whole)
            /\ (ndOut.ok /\ \E a \in V6Addrs : ndStr = <<"[">> \o a \o <<"]">>)
                   => ndOut.val.port = None

\* The text starts with the given text.
StartsWith(s, prefix) ==
    Len(s) >= Len(prefix) /\ SubSeq(s, 1, Len(prefix)) = prefix

\* The same for the texts that start with no IPv4 literal in brackets and no
\* IPv6 literal without brackets.
GrammarOfOtherNodes ==
    (/\ \A a \in V4Addrs : ~StartsWith(ndStr, <<"[">> \o a \o <<"]">>)
     /\ \A a \in V6Addrs : ~StartsWith(ndStr, a))
        => C26_NodeGrammar

-----------------------------------------------------------------------------
(* Strict-Transport-Security: properties                                   *)

\* The directive is a max-age directive: max-age, in any case, with a value
\* after an = sign.
IsMaxAge(directive) ==
    /\ directive # <<>>
    /\ to_ascii_lowercase(Head(directive)) = "max-age"
    /\ Find(directive, "=") # 0

\* The value of a max-age directive, without the white space around it and
\* without its quotes.
MaxAgeValue(directive) ==
    Unquoted(Trim(SubSeq(directive, Find(directive, "=") + 1, Len(directive))))

IsIncludeSubdomains(directive) ==
    Len(directive) = 1 /\ to_ascii_lowercase(directive[1]) = "includesubdomains"

\* C27: decode succeeds exactly when the value has exactly one max-age
\* directive, whose value, in quotes or not, is an unsigned integer, and
\* includeSubdomains, in any case, at most once; a second max-age, a second
\* includeSubdomains, a max-age that is no number and a missing max-age make
\* decode fail; unknown directives are ignored; the result has
\* include_subdomains exactly when the directive is there.
C27_StsDecode ==
    (pc = "sts_decoded" /\ stsShape # <<>>) =>
        LET ages == { i \in 1..Len(stsShape) : IsMaxAge(stsShape[i]) }
            subs == { i \in 1..Len(stsShape) : IsIncludeSubdomains(stsShape[i]) }
            good == /\ Cardinality(ages) = 1
                    /\ \A i \in ages : IsUnsignedDecimal(MaxAgeValue(stsShape[i]))
                    /\ Cardinality(subs) <= 1
        IN  IF good
            THEN \E i \in ages :
                     stsOut = Returned(Some(
                         [max_age |-> DigitsValue(MaxAgeValue(stsShape[i]), 0),
                          include_subdomains |-> subs # {}]))
            ELSE stsOut = Returned(None)

\* A value with includeSubDomains before max-age and an unknown directive
\* between them decodes to max-age 12 with subdomains.
C27_Witness ==
    /\ pc = "sts_decoded"
    /\ stsShape = << <<"includeSubDomains">>, <<"preload">>,
                     <<"max-age", "=", "\"", "1", "2", "\"">> >>
    /\ stsOut = Returned(Some([max_age |-> 12, include_subdomains |-> TRUE]))

-----------------------------------------------------------------------------
(* Range: the texts that parse                                             *)

\* The byte range an item of the list stands for, if any: first-last with
\* first <= last, first- or -n with n > 0.
ItemSpec(item) ==
    LET k == Find(item, "-")
        first == SubSeq(item, 1, k - 1)
        last == SubSeq(item, k + 1, Len(item))
    IN  IF k = 0 THEN None
        ELSE IF IsUnsignedDecimal(first) /\ IsUnsignedDecimal(last)
        THEN (IF DigitsValue(first, 0) <= DigitsValue(last, 0)
              THEN Some(FromTo(DigitsValue(first, 0), DigitsValue(last, 0)))
              ELSE None)
        ELSE IF IsUnsignedDecimal(first) /\ last = <<>>
        THEN Some(AllFrom(DigitsValue(first, 0)))
        ELSE IF first = <<>> /\ IsUnsignedDecimal(last) /\ DigitsValue(last, 0) > 0
        THEN Some(Last(DigitsValue(last, 0)))
        ELSE None

\* The Range a text stands for, if any.
TextRange(text) ==
    LET k == Find(text, "=")
        unit == SubSeq(text, 1, k - 1)
        set == SubSeq(text, k + 1, Len(text))
        items == Split(set, ",")
    IN  IF k = 0 THEN None
        ELSE IF unit = <<"bytes">>
        THEN (IF \A i \in 1..Len(items) : ItemSpec(items[i]) # None
              THEN Some(Bytes([i \in 1..Len(items) |-> ItemSpec(items[i])[1]]))
              ELSE None)
        ELSE IF unit # <<>> /\ set # <<>> THEN Some(Unregistered(unit, set))
        ELSE None

\* C28: a text parses as a Range exactly when it is bytes= with a non-empty
\* comma-separated list whose items are each first-last with first <= last,
\* first- or -n with n > 0, giving Range::Bytes with the items in order, or
\* unit=set with a non-empty unit other than bytes and a non-empty set,
\* giving Range::Unregistered; every other text is rejected; and parsing
\* what Display writes for a parsed Range gives that Range again.
C28_RangeParse ==
    /\ pc \in { "rp_parsed", "rp_shown", "rp_again" } =>
           rpOut = (IF TextRange(rpStr) = None THEN Err ELSE Ok(TextRange(rpStr)[1]))
    /\ pc = "rp_parsed" /\ rpStr \in { <<"bytes", "=">>, <<"custom", "=">>,
                                     <<"=", "1", "-", "1", "0", "0">>, <<"abc">>,
                                     <<"bytes", "=", "1", "-", "2", "-", "3">> }
           => ~rpOut.ok
    /\ pc = "rp_again" => rpAgain = rpOut

\* bytes=01-2,-5 parses to [FromTo(1, 2), Last(5)], is written bytes=1-2,-5
\* and parses again to the same Range.
C28_Witness ==
    /\ pc = "rp_again"
    /\ rpStr = <<"bytes", "=", "0", "1", "-", "2", ",", "-", "5">>
    /\ rpOut = Ok(Bytes(<<FromTo(1, 2), Last(5)>>))
    /\ rpShown = <<"bytes", "=", "1", "-", "2", ",", "-", "5">>
    /\ rpAgain = rpOut

-----------------------------------------------------------------------------
(* Link: all the lines are merged                                          *)

\* What each line of the message parses to, alone.
LinesParsed == [i \in 1..Len(linkLines) |-> LinkLine(linkLines[i])]

\* C29: Link::decode succeeds exactly when there is at least one line and
\* every line parses, and the Link then holds the link-values of the first
\* line followed by those of the second and so on; when a line fails to
\* parse, whatever its position, or there is no line, decode returns an
\* error and no Link.
C29_LinkMerge ==
    pc = "link_decoded" =>
        LET n == Len(linkLines)
            allParse == \A i \in 1..n : LinesParsed[i].ok
        IN  /\ linkOut.ok <=> (n >= 1 /\ allParse)
            /\ linkOut.ok =>
                   linkOut.val.values =
                       Concat([i \in 1..n |-> LinesParsed[i].val.values])
            /\ ~linkOut.ok => linkOut = Err

\* Two lines, the first with the link-values /b and /c and the second with
\* /a, decode to the Link of /b, /c, /a.
C29_Witness ==
    /\ pc = "link_decoded"
    /\ Len(linkLines) = 2
    /\ linkOut.ok
    /\ Len(linkOut.val.values) = 3
    /\ linkOut.val.values[1].link = <<"/b">>
    /\ linkOut.val.values[1].title = Some(<<"x", ",", "y">>)
    /\ linkOut.val.values[2].link = <<"/c">>
    /\ linkOut.val.values[3].link = <<"/a">>
    /\ linkOut.val.values[3].rel = Some(<<[typed |-> "next"]>>)

-----------------------------------------------------------------------------
(* SystemTime to HttpDate and back                                         *)

\* A time with its sub-second part dropped.
WholeSeconds(t) ==
    IF t >= 0 THEN (t \div 1000) * 1000
    ELSE -(((-t) \div 1000) * 1000)

\* C30: for every SystemTime t, before or after the Unix epoch, the
\* SystemTime made from the HttpDate made from t is t with its sub-second
\* part dropped, directly and through Expires and IfModifiedSince.
C30_TimeRoundTrip ==
    pc = "st_back" => stBack = Some(WholeSeconds(stTime))

\* The times of the first minute from the epoch come back with the
\* sub-second part dropped.
FirstMinuteRoundTrip ==
    (pc = "st_back" /\ stTime >= 0 /\ stTime < 60 * 1000)
        => stBack = Some(WholeSeconds(stTime))

\* What comes back is the second of the minute, on the side of the epoch
\* where the time lay.
BackIsSecondOfMinute ==
    pc = "st_back" =>
        /\ stBack[1] \in { s * 1000 : s \in -59..59 }
        /\ (stBack[1] - WholeSeconds(stTime)) % (60 * 1000) = 0
               \/ (stBack[1] + WholeSeconds(stTime)) % (60 * 1000) = 0

=============================================================================
